---- MODULE Spec2Model ----
(***************************************************************************)
(* Trace engine of the ML visualizer backend (app/algos): EM, K-Means,     *)
(* gradient-descent regression.  One server process owns the process-wide  *)
(* numpy random source; a request is served by generating a dataset,       *)
(* running the solver loop and packaging the recorded steps.               *)
(*                                                                         *)
(* Numbers are exact integers.  Data coordinates are multiples of Unit so  *)
(* that the mean of any non-empty cluster is an integer.  Euclidean        *)
(* distances are kept squared (argmin, argmax and "<" are unchanged by     *)
(* squaring non-negative numbers).  Indices are 1-based; ties of argmin    *)
(* and argmax go to the lowest index as in numpy.                          *)
(***************************************************************************)
EXTENDS Integers, Sequences, FiniteSets, TLC

VARIABLES
    request,          \* the request as the caller made it: call path and parameter objects
    rng,              \* the process-wide np.random source (+ bookkeeping of seeding)
    pc,               \* position of the request being served
    run,              \* 1 = first run of the request, 2 = repeated run
    entry,            \* which engine entry point serves the request
    dataset_params,   \* the dataset parameter object
    algo_params,      \* the algo parameter object
    initial_centroids,\* run_kmeans_trace's third argument
    make_blobs,       \* what sklearn's generator returns for dataset_params
    sklearn_call,     \* the arguments of the run's call of an sklearn generator
    X,                \* generated feature matrix
    solver,           \* the solver object (KMeans / EM / regression)
    history,          \* step records collected so far
    metric_history,   \* inertia_history_ / log_likelihood_history / cost_history
    trace,            \* the returned trace envelope (<<>> before the return)
    first_trace       \* the envelope returned by run 1

vars == <<request, rng, pc, run, entry, dataset_params, algo_params, initial_centroids,
          make_blobs, sklearn_call, X, solver, history, metric_history, trace, first_trace>>

(***************************************************************************)
(* Bounds                                                                  *)
(***************************************************************************)
NPoints == 3
MaxK == 3
MaxIters == 5

RECURSIVE Factorial(_)
Factorial(n) == IF n <= 1 THEN 1 ELSE n * Factorial(n - 1)

\* every coordinate of a data point is a multiple of Unit
Unit == Factorial(NPoints)

(***************************************************************************)
(* Generic helpers                                                         *)
(***************************************************************************)
None == 0 - 1
Absent == 0 - 4
NoSeed == 0 - 2
INF == 0 - 3

\* a sequence given as a function, evaluated once into a tuple
Array(f) == f \o <<>>

RECURSIVE SumSeq(_)
SumSeq(s) == IF s = <<>> THEN 0 ELSE Head(s) + SumSeq(Tail(s))

Abs(a) == IF a < 0 THEN 0 - a ELSE a

Range(s) == {s[i] : i \in 1..Len(s)}

MinOf(S) == CHOOSE m \in S : \A o \in S : m <= o
MaxOf(S) == CHOOSE m \in S : \A o \in S : m >= o

\* quotient rounded towards zero, integer square root, power
Quot(a, b) == IF a >= 0 THEN a \div b ELSE 0 - ((0 - a) \div b)

RECURSIVE IsqrtFrom(_, _)
IsqrtFrom(v, r) == IF (r + 1) * (r + 1) > v THEN r ELSE IsqrtFrom(v, r + 1)

Isqrt(v) == IsqrtFrom(v, 0)

RECURSIVE Pow(_, _)
Pow(x, d) == IF d = 0 THEN 1 ELSE x * Pow(x, d - 1)

\* np.argmin / np.argmax over a non-empty sequence: first index of the extreme
ArgMin(s) == CHOOSE i \in 1..Len(s) :
                 /\ \A j \in 1..Len(s) : s[i] <= s[j]
                 /\ \A j \in 1..(i - 1) : s[j] > s[i]
ArgMax(s) == CHOOSE i \in 1..Len(s) :
                 /\ \A j \in 1..Len(s) : s[i] >= s[j]
                 /\ \A j \in 1..(i - 1) : s[j] < s[i]

(***************************************************************************)
(* The process-wide random source.  state is the generator state, by the   *)
(* argument of the last np.random.seed call of the current run (NoSeed if  *)
(* the run has not seeded yet), log the draws of the current run.          *)
(***************************************************************************)
RngMod == 4

RngStates == 0..(RngMod - 1)

NextState(s) == (s + 1) % RngMod

\* np.random.seed(s); seed(None) takes the state from OS entropy.  Seeds
\* are spread over the states so that s and s + 1000 select different ones
seed(rs, s, entropy) ==
    [rs EXCEPT !.state = IF s = None THEN entropy ELSE (s + s \div 1000) % RngMod,
               !.by = s]

\* one draw: advance the state and log the site together with the seeding
draw(rs, site) ==
    [rs EXCEPT !.state = NextState(rs.state),
               !.log = Append(rs.log, [site |-> site, by |-> rs.by])]

\* np.random.choice(n) read off the state reached by the draw (0-based -> 1-based)
choice(rs, n) == (rs.state % n) + 1

\* np.random.uniform(lo, hi) on the integer lattice with the given pitch
uniform(rs, lo, hi, pitch) == lo + pitch * ((rs.state * ((hi - lo) \div pitch)) \div RngMod)

\* np.random.choice(n, p = w / sum(w)): inverse-cdf search with u = state/RngMod
RECURSIVE CdfSearch(_, _, _, _)
CdfSearch(w, i, acc, target) ==
    IF i >= Len(w) THEN Len(w)
    ELSE IF (acc + w[i]) * RngMod > target THEN i
    ELSE CdfSearch(w, i + 1, acc + w[i], target)

choice_p(rs, w) == CdfSearch(w, 1, 0, rs.state * SumSeq(w))

\* np.random.normal(0, std, size): entry k of the array one call returns
normal_at(rs, std, k) == std * (((rs.state + 2 * k) % 3) - 1)

(***************************************************************************)
(* K-Means (app/algos/kmeans.py)                                           *)
(***************************************************************************)
SqDist(p, q) == SumSeq([i \in 1..Len(p) |-> (p[i] - q[i]) * (p[i] - q[i])])

Column(pts, dim) == [i \in 1..Len(pts) |-> pts[i][dim]]

\* a solver that keeps the configured tolerance whatever the number of features
KMeans_Unhalved(n_clusters, max_iters, random_state, tolerance, n_features) ==
    [n_clusters |-> n_clusters,
     max_iters |-> max_iters,
     random_state |-> random_state,
     tolerance2 |-> 2 * tolerance,
     n_features |-> n_features,
     centroids_ |-> <<>>,
     i |-> 0]

\* KMeans.__init__: the tolerance is halved for 3-feature data.  The model
\* keeps twice the tolerance so that the halved value stays an integer.
KMeans(n_clusters, max_iters, random_state, tolerance, n_features) ==
    [n_clusters |-> n_clusters,
     max_iters |-> max_iters,
     random_state |-> random_state,
     tolerance2 |-> IF n_features = 3 THEN tolerance ELSE 2 * tolerance,
     n_features |-> n_features,
     centroids_ |-> <<>>,
     i |-> 0]

\* padding of the bounding box used by the 'random' initialisation
PadLo(col, nf) == IF nf = 3 THEN MinOf(Range(col)) - (3 * (MaxOf(Range(col)) - MinOf(Range(col)))) \div 5
                  ELSE MinOf(Range(col)) - (MaxOf(Range(col)) - MinOf(Range(col))) \div 2
PadHi(col, nf) == IF nf = 3 THEN MaxOf(Range(col)) + (3 * (MaxOf(Range(col)) - MinOf(Range(col)))) \div 5
                  ELSE MaxOf(Range(col)) + (MaxOf(Range(col)) - MinOf(Range(col))) \div 2

\* one centroid of the 'random' initialisation: one uniform draw per coordinate
RECURSIVE RandomCentroid(_, _, _, _)
RandomCentroid(pts, dim, acc, rs) ==
    IF dim > Len(pts[1]) THEN [c |-> acc, rs |-> rs]
    ELSE LET r == draw(rs, "init_random")
             v == uniform(r, PadLo(Column(pts, dim), Len(pts[1])),
                             PadHi(Column(pts, dim), Len(pts[1])), 1)
         IN RandomCentroid(pts, dim + 1, Append(acc, v), r)

RECURSIVE RandomInit(_, _, _, _)
RandomInit(pts, k, cents, rs) ==
    IF k = 0 THEN [ok |-> TRUE, centroids |-> cents, rs |-> rs]
    ELSE LET rc == RandomCentroid(pts, 1, <<>>, rs)
         IN RandomInit(pts, k - 1, Append(cents, rc.c), rc.rs)

\* 3-feature k-means++ perturbs the chosen point by +-15% of each range
RECURSIVE Perturb(_, _, _, _, _)
Perturb(pts, c, dim, acc, rs) ==
    IF Len(pts[1]) # 3 THEN [c |-> c, rs |-> rs]
    ELSE IF dim > Len(c) THEN [c |-> acc, rs |-> rs]
    ELSE LET r == draw(rs, "init_kmeans++")
             range == MaxOf(Range(Column(pts, dim))) - MinOf(Range(Column(pts, dim)))
             v == uniform(r, 0 - (15 * range) \div 100, (15 * range) \div 100, 1)
         IN Perturb(pts, c, dim + 1, Append(acc, c[dim] + v), r)

\* squared distance of every point to its nearest centroid of cs (cs non-empty)
NearestSq(pts, cs) ==
    Array([i \in 1..Len(pts) |-> MinOf({SqDist(pts[i], cs[j]) : j \in 1..Len(cs)})])

RECURSIVE PlusPlusRest(_, _, _, _)
PlusPlusRest(pts, K, cents, rs) ==
    IF Len(cents) >= K THEN [ok |-> TRUE, centroids |-> cents, rs |-> rs]
    ELSE LET distances == NearestSq(pts, cents)
         IN IF SumSeq(distances) = 0
            THEN \* probabilities are NaN: np.random.choice raises ValueError
                 [ok |-> FALSE, centroids |-> cents, rs |-> rs]
            ELSE LET r == draw(rs, "init_kmeans++")
                     idx == choice_p(r, distances)
                     pc2 == Perturb(pts, pts[idx], 1, <<>>, r)
                 IN PlusPlusRest(pts, K, Append(cents, pc2.c), pc2.rs)

PlusPlusInit(pts, K, rs) ==
    LET r == draw(rs, "init_kmeans++")
        idx == choice(r, Len(pts))
        pc1 == Perturb(pts, pts[idx], 1, <<>>, r)
    IN PlusPlusRest(pts, K, <<pc1.c>>, pc1.rs)

\* KMeans.initialize_centroids: reseeds from self.random_state, then draws
initialize_centroids(self, pts, method, rs, entropy) ==
    LET seeded == seed(rs, self.random_state, entropy)
    IN IF method = "random" THEN RandomInit(pts, self.n_clusters, <<>>, seeded)
       ELSE PlusPlusInit(pts, self.n_clusters, seeded)

\* compute_distances: row k holds the (squared) distance of every point to centroid k
compute_distances(pts, centroids) ==
    Array([k \in 1..Len(centroids) |->
             Array([i \in 1..Len(pts) |-> SqDist(pts[i], centroids[k])])])

\* an assignment to the farthest centroid
assign_clusters_farthest(pts, centroids) ==
    LET distances == compute_distances(pts, centroids)
    IN Array([i \in 1..Len(pts) |->
                ArgMax(Array([k \in 1..Len(centroids) |-> distances[k][i]]))])

\* assign_clusters: nearest centroid, lowest index on ties
assign_clusters(pts, centroids) ==
    LET distances == compute_distances(pts, centroids)
    IN Array([i \in 1..Len(pts) |->
                ArgMin(Array([k \in 1..Len(centroids) |-> distances[k][i]]))])

ClusterPoints(pts, labels, k) == {i \in 1..Len(pts) : labels[i] = k}

\* a centroid put on the first point of its cluster
Mean_FirstPoint(pts, idxs) == pts[MinOf(idxs)]

\* the mean of the points of a cluster
Mean(pts, idxs) ==
    Array([dim \in 1..Len(pts[1]) |->
        SumSeq([i \in 1..Len(pts) |-> IF i \in idxs THEN pts[i][dim] ELSE 0])
            \div Cardinality(idxs)])

SelectPlaced(centroids, sizes) ==
    SelectSeq([j \in 1..Len(centroids) |-> <<centroids[j], sizes[j]>>],
              LAMBDA e : e[2] > 0)

\* the data point an empty cluster k is relocated to
RelocationIndex(pts, k, centroids, sizes, r) ==
    LET existing == SelectPlaced(centroids, sizes)
    IN IF k > 1 /\ Len(existing) > 0
       THEN ArgMax(Array([i \in 1..Len(pts) |->
                       MinOf({SqDist(pts[i], existing[j][1]) : j \in 1..Len(existing)})]))
       ELSE choice(r, Len(pts))

RelocationDraws(k, centroids, sizes) ==
    ~(k > 1 /\ Len(SelectPlaced(centroids, sizes)) > 0)

\* KMeans.update_centroids, clusters k..n_clusters
RECURSIVE update_from(_, _, _, _, _, _, _)
update_from(self, pts, labels, k, centroids, sizes, rs) ==
    IF k > self.n_clusters THEN [centroids |-> centroids, cluster_sizes |-> sizes, rs |-> rs]
    ELSE LET cluster_points == ClusterPoints(pts, labels, k)
         IN IF cluster_points # {}
            THEN update_from(self, pts, labels, k + 1,
                             Append(centroids, Mean(pts, cluster_points)),
                             Append(sizes, Cardinality(cluster_points)), rs)
            ELSE LET r == IF RelocationDraws(k, centroids, sizes)
                          THEN draw(rs, "relocate") ELSE rs
                     idx == RelocationIndex(pts, k, centroids, sizes, r)
                 IN update_from(self, pts, labels, k + 1,
                                Append(centroids, pts[idx]), Append(sizes, 0), r)

update_centroids(self, pts, labels, rs) ==
    update_from(self, pts, labels, 1, <<>>, <<>>, rs)

\* compute_inertia indexes centroids[labels]: IndexError when a label has no centroid
InertiaRaises(labels, centroids) == \E i \in 1..Len(labels) : labels[i] > Len(centroids)

compute_inertia(pts, labels, centroids) ==
    SumSeq([i \in 1..Len(pts) |-> SqDist(pts[i], centroids[labels[i]])])

\* new_centroids - old_centroids broadcasts only equal lengths or a single row
MovementRaises(old, new) == Len(old) # Len(new) /\ Len(old) # 1 /\ Len(new) # 1

\* compute_centroid_movement (squared): max row norm of the broadcast difference
compute_centroid_movement(old, new) ==
    IF old = <<>> THEN INF
    ELSE MaxOf({SqDist(new[IF Len(new) = 1 THEN 1 ELSE k],
                       old[IF Len(old) = 1 THEN 1 ELSE k])
                : k \in 1..MaxOf({Len(old), Len(new)})})

\* movement < self.tolerance, on squares and with the doubled tolerance
BelowTolerance(self, movement) == 4 * movement < self.tolerance2 * self.tolerance2

\* KMeans.step
step(self, pts, centroids, rs) ==
    LET labels == assign_clusters(pts, centroids)
        upd == update_centroids(self, pts, labels, rs)
        raises == InertiaRaises(labels, upd.centroids)
                    \/ MovementRaises(centroids, upd.centroids)
        movement == compute_centroid_movement(centroids, upd.centroids)
    IN [raises |-> raises,
        rs |-> upd.rs,
        new_centroids |-> upd.centroids,
        step_info |-> IF raises THEN <<>>
                      ELSE [old_centroids |-> centroids,
                            new_centroids |-> upd.centroids,
                            labels |-> labels,
                            cluster_sizes |-> upd.cluster_sizes,
                            inertia |-> compute_inertia(pts, labels, upd.centroids),
                            movement |-> movement,
                            converged |-> BelowTolerance(self, movement)]]

\* np.bincount(labels, minlength = n)
bincount(labels, n) ==
    [k \in 1..MaxOf({n} \cup Range(labels)) |-> Cardinality({i \in 1..Len(labels) : labels[i] = k})]

(***************************************************************************)
(* K-Means: data generation, fit loop, serialisation, entry point          *)
(***************************************************************************)
\* dict.get(key, default) for an optional integer key: Absent marks a missing key
Get(v, default) == IF v = Absent THEN default ELSE v

\* DataGenerator.generate_random: reseeds the process-wide source, then
\* draws n_samples * n_features uniforms row by row
RECURSIVE random_rows(_, _, _, _, _)
random_rows(n, nf, bounds, pts, rs) ==
    IF Len(pts) >= n THEN [X |-> pts, rs |-> rs]
    ELSE LET RECURSIVE Row(_, _)
             Row(acc, r) == IF Len(acc) >= nf THEN [row |-> acc, rs |-> r]
                            ELSE LET r2 == draw(r, "generate_random")
                                 IN Row(Append(acc, uniform(r2, bounds[1], bounds[2], Unit)), r2)
             row == Row(<<>>, rs)
         IN random_rows(n, nf, bounds, Append(pts, row.row), row.rs)

generate_random(n_samples, random_state, bounds, n_features, rs, entropy) ==
    random_rows(n_samples, n_features, bounds, <<>>, seed(rs, random_state, entropy))

\* noise and factor are counted in hundredths
NoiseMax == 30

NoiseMin == 1

NoiseTooHigh == 10

NoiseTooLow == 5

FactorMin == 20

FactorMax == 90

FactorTooLow == 30

FactorTooHigh == 70

\* a noise argument moved to the nearest end of its range
sanitize_noise_clamped(noise) ==
    IF noise > NoiseMax THEN NoiseMax ELSE IF noise < NoiseMin THEN NoiseMin ELSE noise

\* generate_moons / generate_circles: the noise handed to sklearn
sanitize_noise(noise) ==
    IF noise > NoiseMax THEN NoiseTooHigh ELSE IF noise < NoiseMin THEN NoiseTooLow ELSE noise

\* generate_circles: the factor handed to sklearn
sanitize_factor(factor) ==
    IF factor < FactorMin THEN FactorTooLow
    ELSE IF factor > FactorMax THEN FactorTooHigh ELSE factor

\* the scaling of sklearn's rows by 5 and, for 3 features, the z column:
\* one reseeded call of np.random.normal(0, noise * 3, (n_samples, 1))
ScaledShape(rows, noise, random_state, n_features, rs, entropy) ==
    LET r == draw(seed(rs, random_state, entropy), "shape_z")
    IN IF n_features = 3
       THEN [X |-> Array([i \in 1..Len(rows) |->
                      Array([d \in 1..Len(rows[i]) |-> 5 * rows[i][d]])
                          \o <<Quot(normal_at(r, 3 * noise, i), 100)>>]),
             rs |-> r]
       ELSE [X |-> Array([i \in 1..Len(rows) |->
                      Array([d \in 1..Len(rows[i]) |-> 5 * rows[i][d]])]),
             rs |-> rs]

\* DataGenerator.generate_moons; sklearn returns the rows for its arguments
generate_moons(n_samples, random_state, noise, n_features, rows, rs, entropy) ==
    ScaledShape(rows, sanitize_noise(noise), random_state, n_features, rs, entropy)
        @@ [call |-> [generator |-> "make_moons", n_samples |-> n_samples,
                      noise |-> sanitize_noise(noise), random_state |-> random_state]]

\* DataGenerator.generate_circles
generate_circles(n_samples, random_state, noise, factor, n_features, rows, rs, entropy) ==
    ScaledShape(rows, sanitize_noise(noise), random_state, n_features, rs, entropy)
        @@ [call |-> [generator |-> "make_circles", n_samples |-> n_samples,
                      noise |-> sanitize_noise(noise), random_state |-> random_state,
                      factor |-> sanitize_factor(factor)]]

\* generate_data: blobs, moons and circles come from sklearn's own
\* RandomState (the process-wide source is untouched by it), 'random' data
\* from the process-wide source; noise and factor default to 0.1 and 0.5
generate_data(dp, blobs, rs, entropy) ==
    IF dp.data_type = "random"
    THEN generate_random(dp.n_samples, dp.random_state, dp.bounds, dp.n_features, rs, entropy)
             @@ [call |-> <<>>]
    ELSE IF dp.data_type = "moons"
    THEN generate_moons(dp.n_samples, dp.random_state, Get(dp.noise, 10), dp.n_features,
                        blobs, rs, entropy)
    ELSE IF dp.data_type = "circles"
    THEN generate_circles(dp.n_samples, dp.random_state, Get(dp.noise, 10),
                          Get(dp.factor, 50), dp.n_features, blobs, rs, entropy)
    ELSE [X |-> blobs, rs |-> rs,
          call |-> [generator |-> "make_blobs", n_samples |-> dp.n_samples,
                    random_state |-> dp.random_state]]

\* _serialize_centroids
_serialize_centroids(centroids) ==
    [idx \in 1..Len(centroids) |-> [id |-> idx - 1, position |-> centroids[idx]]]

\* _serialize_step, the payload: a non-finite movement is written as null;
\* old_centroids is <<>> when the key is left out
SerializedPayload(st) ==
    [iteration |-> st.iteration,
     inertia |-> st.inertia,
     converged |-> st.converged,
     centroids |-> _serialize_centroids(st.new_centroids),
     cluster_sizes |-> st.cluster_sizes,
     movement |-> IF st.movement = INF THEN None ELSE st.movement,
     old_centroids |-> IF st.old_centroids = <<>> THEN <<>>
                       ELSE _serialize_centroids(st.old_centroids),
     labels |-> st.labels]

\* a serialiser that derives the type from the converged flag
_serialize_step_flagged(st) ==
    [t |-> st.iteration,
     type |-> IF st.converged THEN "converged" ELSE "update",
     payload |-> SerializedPayload(st)]

\* _serialize_step
_serialize_step(st) ==
    [t |-> st.iteration,
     type |-> st.step_type,
     payload |-> SerializedPayload(st)]

\* perf_counter differences the clock can report
Runtimes == {1, 2}

\* POST /kmeans: the dumped parameter objects, the seed fallback and the
\* removal of initial_centroids from the algo object, then the engine call
\* (a list and the tuple made of it are the same sequence here)
get_kmeans_trace ==
    /\ pc = "route" /\ entry = "kmeans"
    /\ dataset_params' = request.dataset
    /\ algo_params' =
          [n_clusters |-> request.algo.n_clusters,
           max_iters |-> request.algo.max_iters,
           tolerance |-> request.algo.tolerance,
           random_state |-> IF request.algo.random_state = None
                            THEN request.dataset.random_state
                            ELSE request.algo.random_state,
           init_method |-> request.algo.init_method]
    /\ initial_centroids' = request.algo.initial_centroids
    /\ pc' = "start"
    /\ UNCHANGED <<request, sklearn_call, rng, run, entry, make_blobs, X, solver, history,
                   metric_history, trace, first_trace>>

\* run_kmeans_trace, up to the construction of the solver
KMGenerate ==
    /\ pc = "start" /\ entry = "kmeans"
    /\ \E entropy \in RngStates :
         LET g == generate_data(dataset_params, make_blobs, rng, entropy)
         IN /\ X' = g.X
            /\ rng' = g.rs
            /\ sklearn_call' = g.call
            /\ solver' = KMeans(algo_params.n_clusters,
                                algo_params.max_iters,
                                Get(algo_params.random_state, dataset_params.random_state),
                                algo_params.tolerance,
                                dataset_params.n_features)
    /\ pc' = "km_fit"
    /\ UNCHANGED <<request, run, entry, dataset_params, algo_params, initial_centroids,
                   make_blobs, history, metric_history, trace, first_trace>>

\* the record KMeans.fit stores for the initial state
InitialRecord(self, pts, centroids) ==
    LET initial_labels == assign_clusters(pts, centroids)
    IN [iteration |-> 0,
        old_centroids |-> <<>>,
        new_centroids |-> centroids,
        labels |-> initial_labels,
        cluster_sizes |-> bincount(initial_labels, self.n_clusters),
        inertia |-> compute_inertia(pts, initial_labels, centroids),
        movement |-> INF,
        converged |-> FALSE,
        step_type |-> "initialization"]

\* KMeans.fit: initial centroids and the initial record
KMFitInit ==
    /\ pc = "km_fit"
    /\ \E entropy \in RngStates :
         LET ini == IF initial_centroids # <<>>
                    THEN [ok |-> TRUE, centroids |-> initial_centroids, rs |-> rng]
                    ELSE initialize_centroids(solver, X, algo_params.init_method,
                                              rng, entropy)
         IN /\ rng' = ini.rs
            /\ IF ini.ok
               THEN /\ solver' = [solver EXCEPT !.centroids_ = ini.centroids]
                    /\ history' = <<InitialRecord(solver, X, ini.centroids)>>
                    /\ metric_history' = <<InitialRecord(solver, X, ini.centroids).inertia>>
                    /\ pc' = IF solver.max_iters > 0 THEN "km_loop" ELSE "km_ret"
               ELSE /\ pc' = "error"
                    /\ UNCHANGED <<solver, history, metric_history>>
    /\ UNCHANGED <<request, sklearn_call, run, entry, dataset_params, algo_params, initial_centroids,
                   make_blobs, X, trace, first_trace>>

\* a loop that always runs all max_iters passes
LoopEnds_NoBreak(self, step_info) == self.i + 1 >= self.max_iters

\* the main loop ends after max_iters passes or at the first converged step
LoopEnds(self, step_info) == step_info.converged \/ self.i + 1 >= self.max_iters

\* KMeans.fit: one pass of the main loop
KMFitIter ==
    /\ pc = "km_loop"
    /\ LET s == step(solver, X, solver.centroids_, rng)
       IN /\ rng' = s.rs
          /\ IF s.raises
             THEN /\ pc' = "error"
                  /\ UNCHANGED <<solver, history, metric_history>>
             ELSE /\ solver' = [solver EXCEPT !.centroids_ = s.new_centroids, !.i = @ + 1]
                  /\ history' = Append(history,
                        [iteration |-> solver.i + 1, step_type |-> "iteration"] @@ s.step_info)
                  /\ metric_history' = Append(metric_history, s.step_info.inertia)
                  /\ pc' = IF LoopEnds(solver, s.step_info) THEN "km_ret" ELSE "km_loop"
    /\ UNCHANGED <<request, sklearn_call, run, entry, dataset_params, algo_params, initial_centroids,
                   make_blobs, X, trace, first_trace>>

\* run_kmeans_trace: serialise the steps and build the envelope
KMReturn ==
    /\ pc = "km_ret"
    /\ \E runtime_ms \in Runtimes :
         trace' = [schema_version |-> 1,
                   algo |-> "kmeans",
                   meta |-> [n |-> Len(X), d |-> Len(X[1]),
                             data_type |-> dataset_params.data_type,
                             data_points |-> X],
                   params |-> [n_clusters |-> solver.n_clusters,
                               max_iters |-> solver.max_iters,
                               tolerance |-> algo_params.tolerance,
                               random_state |-> solver.random_state],
                   params_full |-> [dataset |-> dataset_params, algo |-> algo_params],
                   steps |-> Array([j \in 1..Len(history) |-> _serialize_step(history[j])]),
                   inertia_history |-> metric_history,
                   summary |-> [iterations |-> Len(history) - 1,
                                converged |-> history[Len(history)].converged,
                                final_inertia |-> metric_history[Len(metric_history)],
                                runtime_ms |-> runtime_ms]]
    /\ pc' = "done"
    /\ UNCHANGED <<request, sklearn_call, rng, run, entry, dataset_params, algo_params, initial_centroids,
                   make_blobs, X, solver, history, metric_history, first_trace>>

(***************************************************************************)
(* EM for Gaussian mixtures (app/algos/em.py).  The real-valued parameters *)
(* (pi, mu, sigma) are identified by theta, the number of maximization     *)
(* steps that produced them; a log-likelihood is identified by the theta   *)
(* it was evaluated for.                                                   *)
(***************************************************************************)
\* one sample row of cluster i, read off the state reached by the draw
GmmRow(mu_i, cov_i, state, j) ==
    [dim \in 1..3 |-> mu_i[dim] + cov_i * (((state + j + dim) % 3) - 1)]

\* the three calls into the random source GMM3d makes per cluster
gmm_mean(r1) == Array([dim \in 1..3 |-> uniform(r1, 0 - 4, 4, 1) + dim])

gmm_cov(r2) == uniform(r2, 1, 3, 1)

gmm_samples(r3, mu_i, cov_i, n_cluster_size) ==
    Array([j \in 1..n_cluster_size |-> Array(GmmRow(mu_i, cov_i, r3.state, j))])

\* GMM3d, clusters i..K
RECURSIVE GMM3d_clusters(_, _, _, _, _)
GMM3d_clusters(i, K, n_cluster_size, rows, rs) ==
    IF i > K THEN [X |-> rows, rs |-> rs]
    ELSE LET r1 == draw(rs, "gmm_mean")
             mu_i == gmm_mean(r1)
             r2 == draw(r1, "gmm_cov")
             cov_i == gmm_cov(r2)
             r3 == draw(r2, "gmm_samples")
             x_cluster == gmm_samples(r3, mu_i, cov_i, n_cluster_size)
         IN GMM3d_clusters(i + 1, K, n_cluster_size, rows \o x_cluster, r3)

\* GMM3d: reseeds the process-wide source, n // K samples per cluster
GMM3d(K, seed_, n, rs, entropy) ==
    GMM3d_clusters(1, K, n \div K, <<>>, seed(rs, seed_, entropy))

\* np.random.choice(n, C, False): raises unless 1 <= C <= n
ChoiceRaises(n, C) == n = 0 \/ C > n

choice_without_replacement(rs, n, C) == [j \in 1..C |-> ((rs.state + j - 1) % n) + 1]

\* priors and responsibilities are fixed-point in units of 1/PiScale
PiScale == 100

\* densities are counted in quanta of half the 1e-12 floor of the normalizers
PdfFloor == 2

\* the density, in quanta, at the mean of a component whose covariance has
\* determinant 1 (coordinates are in units of the caller's mean range)
PdfPeak == 64

\* N^2 times np.var of a column of N entries
VarNum(col) ==
    Len(col) * SumSeq([i \in 1..Len(col) |-> col[i] * col[i]]) - SumSeq(col) * SumSeq(col)

\* initialized_params: uniform priors, means drawn from the data rows, the
\* diagonal of every covariance set to the variances of the data columns
initialized_params(pts, C, rs) ==
    LET r == draw(rs, "em_means")
        idx == choice_without_replacement(r, Len(pts), C)
    IN [rs |-> r, mu |-> [c \in 1..C |-> pts[idx[c]]], theta |-> 0,
        pi |-> [c \in 1..C |-> Quot(PiScale, C)],
        var |-> [d \in 1..3 |-> VarNum(Column(pts, d))]]

\* np.linalg.inv(sigma) raises LinAlgError on a singular matrix
InvRaises(var) == \E d \in 1..Len(var) : var[d] = 0

\* multivariate_norm_pdf for sigma = diag(var / N^2): the density of every
\* row, coeff * exp(exponent) with exp(-1/2) taken as 1/2
multivariate_norm_pdf(pts, mu, var) ==
    LET N == Len(pts)
        sqrt_det == Isqrt(var[1]) * Isqrt(var[2]) * Isqrt(var[3])
        distance(i) == SumSeq([d \in 1..3 |->
                          Quot((pts[i][d] - mu[d]) * (pts[i][d] - mu[d]) * N * N, var[d])])
        coeff == Quot(PdfPeak * N * N * N, sqrt_det)
    IN [i \in 1..N |-> Quot(coeff, Pow(2, distance(i) \div 2))]

\* run_em_trace: data generation
EMGenerate ==
    /\ pc = "start" /\ entry = "em"
    /\ \E entropy \in RngStates :
         LET g == GMM3d(dataset_params.K, dataset_params.seed, dataset_params.n, rng, entropy)
         IN X' = g.X /\ rng' = g.rs
    /\ pc' = "em_new"
    /\ UNCHANGED <<request, sklearn_call, run, entry, dataset_params, algo_params, initial_centroids,
                   make_blobs, solver, history, metric_history, trace, first_trace>>

\* EM.__init__
EMConstruct ==
    /\ pc = "em_new"
    /\ IF ChoiceRaises(Len(X), algo_params.C)
       THEN /\ pc' = "error"
            /\ UNCHANGED <<rng, solver, metric_history>>
       ELSE LET ip == initialized_params(X, algo_params.C, rng)
            IN /\ rng' = ip.rs
               /\ solver' = [C |-> algo_params.C, N |-> Len(X), mu0 |-> ip.mu,
                             pi |-> ip.pi, var |-> ip.var,
                             theta |-> ip.theta, i |-> 0]
               /\ metric_history' = <<>>
               /\ pc' = "em_fit"
    /\ UNCHANGED <<request, sklearn_call, run, entry, dataset_params, algo_params, initial_centroids,
                   make_blobs, X, history, trace, first_trace>>

\* EM.fit_and_trace: the init record
EMFitInit ==
    /\ pc = "em_fit"
    /\ history' = <<[t |-> 0, type |-> "init",
                     payload |-> [theta |-> solver.theta, pi |-> solver.pi,
                                  mu |-> solver.mu0]]>>
    /\ pc' = IF algo_params.num_iters >= 1 THEN "em_loop" ELSE "em_end"
    /\ UNCHANGED <<request, sklearn_call, rng, run, entry, dataset_params, algo_params, initial_centroids,
                   make_blobs, X, solver, metric_history, trace, first_trace>>

\* EM.expectation appends the log-likelihood of the parameters it was given
expectation(self, llh) == Append(llh, [of |-> self.theta])

\* EM.expectation, the responsibilities under the initial parameters: the
\* weighted densities of a row divided by their sum, the sum clipped from
\* below at the floor
responsibilities(self, pts) ==
    LET pdf == [c \in 1..self.C |-> multivariate_norm_pdf(pts, self.mu0[c], self.var)]
        gamma(i, c) == self.pi[c] * pdf[c][i]
        denominator(i) ==
            LET total == SumSeq([c \in 1..self.C |-> gamma(i, c)])
            IN IF total < PdfFloor * PiScale THEN PdfFloor * PiScale ELSE total
    IN Array([i \in 1..Len(pts) |->
                Array([c \in 1..self.C |-> Quot(gamma(i, c) * PiScale, denominator(i))])])

\* EM.maximization, the priors: the column sums of the responsibilities
\* (clipped from below at 1e-12, less than one unit here) divided by N
priors(gamma) ==
    Array([c \in 1..Len(gamma[1]) |->
             Quot(SumSeq([i \in 1..Len(gamma) |-> gamma[i][c]]), Len(gamma))])

\* EM.maximization replaces the parameters; the priors of the first update
\* are computed, those of later updates are part of theta
maximization(self, pts) ==
    [self EXCEPT !.theta = @ + 1,
                 !.pi = IF self.theta = 0 THEN priors(responsibilities(self, pts))
                        ELSE <<>>]

\* EM.fit_and_trace: one pass of the loop, i = solver.i + 1; the first
\* expectation inverts the initial covariances
EMIter ==
    /\ pc = "em_loop"
    /\ IF solver.theta = 0 /\ InvRaises(solver.var)
       THEN pc' = "error" /\ UNCHANGED <<solver, history, metric_history>>
       ELSE LET llh == expectation(solver, metric_history)
                em == maximization(solver, X)
                i == solver.i + 1
            IN /\ metric_history' = llh
               /\ solver' = [em EXCEPT !.i = i]
               /\ history' = Append(history,
                     [t |-> i, type |-> "update",
                      payload |-> [theta |-> em.theta, pi |-> em.pi,
                                   loglike |-> llh[Len(llh)]]])
               /\ pc' = IF i >= algo_params.num_iters THEN "em_end" ELSE "em_loop"
    /\ UNCHANGED <<request, sklearn_call, rng, run, entry, dataset_params, algo_params, initial_centroids,
                   make_blobs, X, trace, first_trace>>

\* EM.fit_and_trace: the terminal record reads log_likelihood_history[-1],
\* an IndexError on an empty history
EMFinish ==
    /\ pc = "em_end"
    /\ IF metric_history = <<>>
       THEN pc' = "error" /\ UNCHANGED history
       ELSE /\ history' = Append(history,
                  [t |-> algo_params.num_iters + 1, type |-> "converged",
                   payload |-> [loglike |-> metric_history[Len(metric_history)]]])
            /\ pc' = "em_ret"
    /\ UNCHANGED <<request, sklearn_call, rng, run, entry, dataset_params, algo_params, initial_centroids,
                   make_blobs, X, solver, metric_history, trace, first_trace>>

\* run_em_trace: the envelope
EMReturn ==
    /\ pc = "em_ret"
    /\ trace' = [schema_version |-> 1,
                 algo |-> "em_gmm_3d",
                 meta |-> [n |-> Len(X), d |-> Len(X[1])],
                 params |-> [C |-> algo_params.C, num_iters |-> algo_params.num_iters,
                             seed |-> dataset_params.seed],
                 params_full |-> [dataset |-> dataset_params, algo |-> algo_params],
                 steps |-> history,
                 log_likelihoods |-> metric_history]
    /\ pc' = "done"
    /\ UNCHANGED <<request, sklearn_call, rng, run, entry, dataset_params, algo_params, initial_centroids,
                   make_blobs, X, solver, history, metric_history, first_trace>>

(***************************************************************************)
(* Gradient-descent regression (app/algos/linreg.py).  Real numbers are    *)
(* fixed-point: features, targets, weights and gradients in units of       *)
(* 1/Scale, costs in units of 1/Scale^2, quotients rounded towards zero.   *)
(***************************************************************************)
Scale == 8

Dot(u, v) == SumSeq([j \in 1..Len(u) |-> u[j] * v[j]])

\* an optional list: <<>> is None, <<l>> is the list l
Some(l) == <<l>>

\* np.random.uniform(lo, hi, size): entry k of the array one call returns
uniform_at(rs, lo, hi, k) == lo + ((rs.state + k) % (hi - lo + 1))

\* np.random.randn(size): entry k of the array one call returns
randn_at(rs, k) == Scale * (((rs.state + k) % 5) - 2)

\* true_weights of a length other than 2 is unpacked as [b, w1, w2]
TrueWeightsRaises(dp) ==
    dp.num_features # 1 /\ dp.true_weights # <<>> /\ Len(dp.true_weights[1]) < 2

\* the [b, w1, w2] generate_linear_data uses for 2-feature data
PlaneWeights(dp) ==
    IF dp.true_weights = <<>> THEN <<dp.true_intercept, dp.true_slope, 1>>
    ELSE IF Len(dp.true_weights[1]) = 2
         THEN <<dp.true_intercept, dp.true_weights[1][1], dp.true_weights[1][2]>>
         ELSE <<dp.true_weights[1][1], dp.true_weights[1][2], dp.true_weights[1][3]>>

\* generate_linear_data: reseeds the process-wide source, one call for X, one for the noise
generate_linear_data(dp, rs, entropy) ==
    LET r0 == seed(rs, dp.seed, entropy)
        r1 == draw(r0, "linreg_X")
        r2 == draw(r1, "linreg_noise")
    IN IF dp.num_features = 1
       THEN [X |-> Array([i \in 1..dp.n |-> <<Scale * uniform_at(r1, dp.x_min, dp.x_max, i)>>]),
             y |-> Array([i \in 1..dp.n |->
                      Scale * (dp.true_slope * uniform_at(r1, dp.x_min, dp.x_max, i)
                               + dp.true_intercept + normal_at(r2, dp.noise_std, i))]),
             rs |-> r2]
       ELSE LET w == PlaneWeights(dp)
                x1(i) == uniform_at(r1, dp.x_min, dp.x_max, 2 * i - 1)
                x2(i) == uniform_at(r1, dp.x_min, dp.x_max, 2 * i)
            IN [X |-> Array([i \in 1..dp.n |-> <<Scale * x1(i), Scale * x2(i)>>]),
                y |-> Array([i \in 1..dp.n |->
                         Scale * (w[2] * x1(i) + w[3] * x2(i) + w[1]
                                  + normal_at(r2, dp.noise_std, i))]),
                rs |-> r2]

\* the seed the regression solvers reseed with before drawing the weights
WeightSeed == 42

\* LinearRegression.__init__: bias column, reseed, small random weights
LinearRegression(pts, y, learning_rate, fit_intercept, rs, entropy) ==
    LET X_with_bias == IF fit_intercept
                       THEN Array([i \in 1..Len(pts) |-> <<Scale>> \o pts[i]])
                       ELSE pts
        r == draw(seed(rs, WeightSeed, entropy), "linreg_weights")
    IN [rs |-> r,
        self |-> [X_with_bias |-> X_with_bias, y |-> y,
                  learning_rate |-> learning_rate, fit_intercept |-> fit_intercept,
                  weights |-> Array([j \in 1..Len(X_with_bias[1]) |-> Quot(randn_at(r, j), 10)]),
                  i |-> 0]]

Predictions(self) ==
    Array([i \in 1..Len(self.y) |-> Quot(Dot(self.X_with_bias[i], self.weights), Scale)])

\* mean squared error
MSE(self) ==
    LET predictions == Predictions(self)
    IN Quot(SumSeq([i \in 1..Len(self.y) |->
                      (predictions[i] - self.y[i]) * (predictions[i] - self.y[i])]),
            Len(self.y))

\* LinearRegression._compute_cost
Lin_compute_cost(self) == MSE(self)

\* (2 / n) * X^T (Xw - y)
MSEGradient(self) ==
    LET predictions == Predictions(self)
    IN Array([j \in 1..Len(self.weights) |->
          Quot(2 * SumSeq([i \in 1..Len(self.y) |->
                             self.X_with_bias[i][j] * (predictions[i] - self.y[i])]),
               Len(self.y) * Scale)])

\* LinearRegression._compute_gradient
Lin_compute_gradient(self) == MSEGradient(self)

\* self.weights -= self.learning_rate * gradient
Descend(self, gradient) ==
    [self EXCEPT !.weights = Array([j \in 1..Len(self.weights) |->
        self.weights[j] - Quot(self.learning_rate[1] * gradient[j], self.learning_rate[2])])]

\* the 1e-8 threshold lies below one cost quantum
CostTol == 1

\* an early-stopping test against the initial cost
EarlyStop_Stale(cost_history) ==
    /\ Len(cost_history) > 1
    /\ Abs(cost_history[1] - cost_history[Len(cost_history)]) < CostTol

\* the early-stopping test on the two most recent costs
EarlyStop(cost_history) ==
    /\ Len(cost_history) > 1
    /\ Abs(cost_history[Len(cost_history) - 1] - cost_history[Len(cost_history)]) < CostTol

\* one pass whose converged record repeats the index of its update record
IterationSteps_SameIndex(update, converged, stops) ==
    IF stops THEN <<update, [converged EXCEPT !.t = update.t]>> ELSE <<update>>

\* one pass that replaces its update record by the converged record when it stops
IterationSteps_Unrecorded(update, converged, stops) ==
    IF stops THEN <<converged>> ELSE <<update>>

\* the records one pass of a fit_and_trace loop appends: the update record,
\* and after it the converged record when the early-stopping test passes
IterationSteps(update, converged, stops) ==
    IF stops THEN <<update, converged>> ELSE <<update>>

\* run_linreg_trace: data generation and construction of the solver
LinGenerate ==
    /\ pc = "start" /\ entry = "linreg"
    /\ IF TrueWeightsRaises(dataset_params)
       THEN pc' = "error" /\ UNCHANGED <<rng, X, solver>>
       ELSE \E entropy \in RngStates :
              LET g == generate_linear_data(dataset_params, rng, entropy)
                  m == LinearRegression(g.X, g.y, algo_params.learning_rate,
                                        algo_params.fit_intercept, g.rs, entropy)
              IN X' = g.X /\ rng' = m.rs /\ solver' = m.self /\ pc' = "lin_fit"
    /\ UNCHANGED <<request, sklearn_call, run, entry, dataset_params, algo_params, initial_centroids,
                   make_blobs, history, metric_history, trace, first_trace>>

\* LinearRegression.fit_and_trace: the init record
LinFitInit ==
    /\ pc = "lin_fit"
    /\ history' = <<[t |-> 0, type |-> "init",
                     payload |-> [weights |-> solver.weights,
                                  cost |-> Lin_compute_cost(solver)]]>>
    /\ metric_history' = <<Lin_compute_cost(solver)>>
    /\ pc' = IF algo_params.num_iters >= 1 THEN "lin_loop" ELSE "lin_end"
    /\ UNCHANGED <<request, sklearn_call, rng, run, entry, dataset_params, algo_params, initial_centroids,
                   make_blobs, X, solver, trace, first_trace>>

\* LinearRegression.fit_and_trace: one pass of the loop, i = solver.i + 1
LinFitIter ==
    /\ pc = "lin_loop"
    /\ LET i == solver.i + 1
           gradient == Lin_compute_gradient(solver)
           self == [Descend(solver, gradient) EXCEPT !.i = i]
           cost == Lin_compute_cost(self)
           costs == Append(metric_history, cost)
           update == [t |-> i, type |-> "update",
                      payload |-> [weights |-> self.weights, gradient |-> gradient,
                                   cost |-> cost]]
       IN /\ solver' = self
          /\ metric_history' = costs
          /\ history' = history \o IterationSteps(update,
                                       [t |-> i + 1, type |-> "converged",
                                        payload |-> [cost |-> cost]],
                                       EarlyStop(costs))
          /\ pc' = IF EarlyStop(costs) \/ i >= algo_params.num_iters
                   THEN "lin_end" ELSE "lin_loop"
    /\ UNCHANGED <<request, sklearn_call, rng, run, entry, dataset_params, algo_params, initial_centroids,
                   make_blobs, X, trace, first_trace>>

\* LinearRegression.fit_and_trace: the final record if the loop did not stop early
LinFitFinish ==
    /\ pc = "lin_end"
    /\ history' = IF history[Len(history)].type # "converged"
                  THEN Append(history,
                         [t |-> algo_params.num_iters + 1, type |-> "converged",
                          payload |-> [cost |-> metric_history[Len(metric_history)]]])
                  ELSE history
    /\ pc' = "lin_ret"
    /\ UNCHANGED <<request, sklearn_call, rng, run, entry, dataset_params, algo_params, initial_centroids,
                   make_blobs, X, solver, metric_history, trace, first_trace>>

\* run_linreg_trace: final weights and the envelope
LinReturn ==
    /\ pc = "lin_ret"
    /\ trace' = [schema_version |-> 1,
                 algo |-> "linear_regression",
                 meta |-> [n |-> Len(X), d |-> Len(X[1])],
                 params |-> [learning_rate |-> algo_params.learning_rate,
                             num_iters |-> algo_params.num_iters,
                             fit_intercept |-> algo_params.fit_intercept,
                             seed |-> dataset_params.seed],
                 params_full |-> [dataset |-> dataset_params, algo |-> algo_params],
                 steps |-> history,
                 cost_history |-> metric_history,
                 final_weights |-> solver.weights]
    /\ pc' = "done"
    /\ UNCHANGED <<request, sklearn_call, rng, run, entry, dataset_params, algo_params, initial_centroids,
                   make_blobs, X, solver, history, metric_history, first_trace>>

(***************************************************************************)
(* Ridge and Lasso regression (app/algos/regularization.py)                *)
(***************************************************************************)
MeanVal(col) == Quot(SumSeq(col), Len(col))

\* np.std: square root of the mean squared deviation
StdVal(col) ==
    LET mean_val == MeanVal(col)
    IN Isqrt(Quot(SumSeq([i \in 1..Len(col) |-> (col[i] - mean_val) * (col[i] - mean_val)]),
                  Len(col)))

\* column d of the feature matrix (d = 0 is the constant column)
PolyColumn(xs, d, normalize_features) ==
    LET raw == Array([i \in 1..Len(xs) |-> Scale * Pow(xs[i], d)])
        mean_val == MeanVal(raw)
        std_val == StdVal(raw)
    IN IF normalize_features /\ d >= 1 /\ std_val > 0
       THEN Array([i \in 1..Len(xs) |-> Quot((raw[i] - mean_val) * Scale, std_val)])
       ELSE raw

\* generate_polynomial_data: reseeds the process-wide source; the features are
\* normalised, the targets come from the raw powers
generate_polynomial_data(dp, normalize_features, rs, entropy) ==
    LET r0 == seed(rs, dp.seed, entropy)
        r1 == draw(r0, "poly_X")
        r2 == draw(r1, "poly_noise")
        degree == Len(dp.true_coefficients) - 1
        xs == Array([i \in 1..dp.n |-> uniform_at(r1, dp.x_min, dp.x_max, i)])
        cols == Array([c \in 1..(degree + 1) |-> PolyColumn(xs, c - 1, normalize_features)])
    IN [X |-> Array([i \in 1..dp.n |-> Array([c \in 1..(degree + 1) |-> cols[c][i]])]),
        y |-> Array([i \in 1..dp.n |->
                 Scale * (SumSeq([c \in 1..(degree + 1) |->
                                    dp.true_coefficients[c] * Pow(xs[i], c - 1)])
                          + normal_at(r2, dp.noise_std, i))]),
        feature_stats |-> [d \in 1..degree |->
                             [mean |-> MeanVal([i \in 1..dp.n |-> Scale * Pow(xs[i], d)]),
                              std |-> StdVal([i \in 1..dp.n |-> Scale * Pow(xs[i], d)])]],
        rs |-> r2]

\* str.lower() on the regularization_type strings of the requests
Lower(str) == IF str = "Lasso" THEN "lasso" ELSE str

\* the weights the penalty is taken over: weights[1:] with an intercept
PenaltyWeights(self) ==
    IF self.fit_intercept THEN SubSeq(self.weights, 2, Len(self.weights)) ELSE self.weights

Sign(a) == IF a > 0 THEN 1 ELSE IF a < 0 THEN 0 - 1 ELSE 0

\* RidgeRegression.__init__: bias column, reseed, small random weights
RidgeRegression(pts, y, learning_rate, lambda_reg, fit_intercept, rs, entropy) ==
    LET X_with_bias == IF fit_intercept
                       THEN Array([i \in 1..Len(pts) |-> <<Scale>> \o pts[i]])
                       ELSE pts
        r == draw(seed(rs, WeightSeed, entropy), "ridge_weights")
    IN [rs |-> r,
        self |-> [X_with_bias |-> X_with_bias, y |-> y,
                  learning_rate |-> learning_rate, lambda_reg |-> lambda_reg,
                  fit_intercept |-> fit_intercept,
                  weights |-> Array([j \in 1..Len(X_with_bias[1]) |-> Quot(randn_at(r, j), 100)]),
                  i |-> 0, class |-> "RidgeRegression"]]

\* lambda * ||w||^2 over the penalised weights
Ridge_reg_term(self) ==
    Quot(self.lambda_reg[1] * SumSeq([j \in 1..Len(PenaltyWeights(self)) |->
                                        PenaltyWeights(self)[j] * PenaltyWeights(self)[j]]),
         self.lambda_reg[2])

\* RidgeRegression._compute_cost
Ridge_compute_cost(self) == MSE(self) + Ridge_reg_term(self)

\* RidgeRegression._compute_gradient: 2 * lambda * w added off the bias entry
Ridge_compute_gradient(self) ==
    LET gradient == MSEGradient(self)
    IN Array([j \in 1..Len(self.weights) |->
        gradient[j]
        + IF self.fit_intercept /\ j = 1 THEN 0
          ELSE Quot(2 * self.lambda_reg[1] * self.weights[j], self.lambda_reg[2])])

\* RidgeRegression.fit_and_trace: the init record
RidgeFitInit ==
    /\ pc = "ridge_fit"
    /\ history' = <<[t |-> 0, type |-> "init",
                     payload |-> [weights |-> solver.weights,
                                  cost |-> Ridge_compute_cost(solver),
                                  mse |-> MSE(solver),
                                  regularization |-> Ridge_reg_term(solver)]]>>
    /\ metric_history' = <<Ridge_compute_cost(solver)>>
    /\ pc' = IF algo_params.num_iters >= 1 THEN "ridge_loop" ELSE "ridge_end"
    /\ UNCHANGED <<request, sklearn_call, rng, run, entry, dataset_params, algo_params, initial_centroids,
                   make_blobs, X, solver, trace, first_trace>>

\* RidgeRegression.fit_and_trace: one pass of the loop, i = solver.i + 1
RidgeFitIter ==
    /\ pc = "ridge_loop"
    /\ LET i == solver.i + 1
           gradient == Ridge_compute_gradient(solver)
           self == [Descend(solver, gradient) EXCEPT !.i = i]
           cost == Ridge_compute_cost(self)
           costs == Append(metric_history, cost)
           update == [t |-> i, type |-> "update",
                      payload |-> [weights |-> self.weights, gradient |-> gradient,
                                   cost |-> cost, mse |-> MSE(self),
                                   regularization |-> Ridge_reg_term(self)]]
       IN /\ solver' = self
          /\ metric_history' = costs
          /\ history' = history \o IterationSteps(update,
                                       [t |-> i + 1, type |-> "converged",
                                        payload |-> [cost |-> cost, mse |-> MSE(self),
                                                     regularization |-> Ridge_reg_term(self)]],
                                       EarlyStop(costs))
          /\ pc' = IF EarlyStop(costs) \/ i >= algo_params.num_iters
                   THEN "ridge_end" ELSE "ridge_loop"
    /\ UNCHANGED <<request, sklearn_call, rng, run, entry, dataset_params, algo_params, initial_centroids,
                   make_blobs, X, trace, first_trace>>

\* RidgeRegression.fit_and_trace: the final record if the loop did not stop early
RidgeFitFinish ==
    /\ pc = "ridge_end"
    /\ history' = IF history[Len(history)].type # "converged"
                  THEN Append(history,
                         [t |-> algo_params.num_iters + 1, type |-> "converged",
                          payload |-> [cost |-> Ridge_compute_cost(solver),
                                       mse |-> MSE(solver),
                                       regularization |-> Ridge_reg_term(solver)]])
                  ELSE history
    /\ pc' = "reg_ret"
    /\ UNCHANGED <<request, sklearn_call, rng, run, entry, dataset_params, algo_params, initial_centroids,
                   make_blobs, X, solver, metric_history, trace, first_trace>>

\* LassoRegression.__init__: bias column, reseed, small random weights
LassoRegression(pts, y, learning_rate, lambda_reg, fit_intercept, rs, entropy) ==
    LET X_with_bias == IF fit_intercept
                       THEN Array([i \in 1..Len(pts) |-> <<Scale>> \o pts[i]])
                       ELSE pts
        r == draw(seed(rs, WeightSeed, entropy), "lasso_weights")
    IN [rs |-> r,
        self |-> [X_with_bias |-> X_with_bias, y |-> y,
                  learning_rate |-> learning_rate, lambda_reg |-> lambda_reg,
                  fit_intercept |-> fit_intercept,
                  weights |-> Array([j \in 1..Len(X_with_bias[1]) |-> Quot(randn_at(r, j), 100)]),
                  i |-> 0, class |-> "LassoRegression"]]

\* lambda * ||w||_1 over the penalised weights
Lasso_reg_term(self) ==
    Quot(self.lambda_reg[1] * Scale
           * SumSeq([j \in 1..Len(PenaltyWeights(self)) |-> Abs(PenaltyWeights(self)[j])]),
         self.lambda_reg[2])

\* LassoRegression._compute_cost
Lasso_compute_cost(self) == MSE(self) + Lasso_reg_term(self)

\* LassoRegression._compute_gradient: lambda * sign(w) added off the bias entry
Lasso_compute_gradient(self) ==
    LET gradient == MSEGradient(self)
    IN Array([j \in 1..Len(self.weights) |->
        gradient[j]
        + IF self.fit_intercept /\ j = 1 THEN 0
          ELSE Quot(self.lambda_reg[1] * Scale * Sign(self.weights[j]), self.lambda_reg[2])])

\* LassoRegression.fit_and_trace: the init record
LassoFitInit ==
    /\ pc = "lasso_fit"
    /\ history' = <<[t |-> 0, type |-> "init",
                     payload |-> [weights |-> solver.weights,
                                  cost |-> Lasso_compute_cost(solver),
                                  mse |-> MSE(solver),
                                  regularization |-> Lasso_reg_term(solver)]]>>
    /\ metric_history' = <<Lasso_compute_cost(solver)>>
    /\ pc' = IF algo_params.num_iters >= 1 THEN "lasso_loop" ELSE "lasso_end"
    /\ UNCHANGED <<request, sklearn_call, rng, run, entry, dataset_params, algo_params, initial_centroids,
                   make_blobs, X, solver, trace, first_trace>>

\* LassoRegression.fit_and_trace: one pass of the loop, i = solver.i + 1
LassoFitIter ==
    /\ pc = "lasso_loop"
    /\ LET i == solver.i + 1
           gradient == Lasso_compute_gradient(solver)
           self == [Descend(solver, gradient) EXCEPT !.i = i]
           cost == Lasso_compute_cost(self)
           costs == Append(metric_history, cost)
           update == [t |-> i, type |-> "update",
                      payload |-> [weights |-> self.weights, gradient |-> gradient,
                                   cost |-> cost, mse |-> MSE(self),
                                   regularization |-> Lasso_reg_term(self)]]
       IN /\ solver' = self
          /\ metric_history' = costs
          /\ history' = history \o IterationSteps(update,
                                       [t |-> i + 1, type |-> "converged",
                                        payload |-> [cost |-> cost, mse |-> MSE(self),
                                                     regularization |-> Lasso_reg_term(self)]],
                                       EarlyStop(costs))
          /\ pc' = IF EarlyStop(costs) \/ i >= algo_params.num_iters
                   THEN "lasso_end" ELSE "lasso_loop"
    /\ UNCHANGED <<request, sklearn_call, rng, run, entry, dataset_params, algo_params, initial_centroids,
                   make_blobs, X, trace, first_trace>>

\* LassoRegression.fit_and_trace: the final record if the loop did not stop early
LassoFitFinish ==
    /\ pc = "lasso_end"
    /\ history' = IF history[Len(history)].type # "converged"
                  THEN Append(history,
                         [t |-> algo_params.num_iters + 1, type |-> "converged",
                          payload |-> [cost |-> Lasso_compute_cost(solver),
                                       mse |-> MSE(solver),
                                       regularization |-> Lasso_reg_term(solver)]])
                  ELSE history
    /\ pc' = "reg_ret"
    /\ UNCHANGED <<request, sklearn_call, rng, run, entry, dataset_params, algo_params, initial_centroids,
                   make_blobs, X, solver, metric_history, trace, first_trace>>

\* run_regularization_trace: data generation and the choice of the model
RegGenerate ==
    /\ pc = "start" /\ entry = "regularization"
    /\ \E entropy \in RngStates :
         LET g == generate_polynomial_data(dataset_params, TRUE, rng, entropy)
             lasso == Lower(algo_params.regularization_type) = "lasso"
             m == IF lasso
                  THEN LassoRegression(g.X, g.y, algo_params.learning_rate,
                                       algo_params.lambda_reg, algo_params.fit_intercept,
                                       g.rs, entropy)
                  ELSE RidgeRegression(g.X, g.y, algo_params.learning_rate,
                                       algo_params.lambda_reg, algo_params.fit_intercept,
                                       g.rs, entropy)
         IN /\ X' = g.X
            /\ rng' = m.rs
            /\ solver' = m.self
            /\ pc' = IF lasso THEN "lasso_fit" ELSE "ridge_fit"
    /\ UNCHANGED <<request, sklearn_call, run, entry, dataset_params, algo_params, initial_centroids,
                   make_blobs, history, metric_history, trace, first_trace>>

\* run_regularization_trace: weight magnitude and the envelope
RegReturn ==
    /\ pc = "reg_ret"
    /\ trace' = [schema_version |-> 1,
                 algo |-> <<"regularization", Lower(algo_params.regularization_type)>>,
                 meta |-> [n |-> Len(X), d |-> Len(X[1])],
                 params |-> [regularization_type |-> algo_params.regularization_type,
                             learning_rate |-> algo_params.learning_rate,
                             lambda_reg |-> algo_params.lambda_reg,
                             num_iters |-> algo_params.num_iters,
                             fit_intercept |-> algo_params.fit_intercept,
                             seed |-> dataset_params.seed],
                 params_full |-> [dataset |-> dataset_params, algo |-> algo_params],
                 steps |-> history,
                 cost_history |-> metric_history,
                 final_weights |-> solver.weights,
                 weight_magnitude |-> Isqrt(SumSeq([j \in 1..Len(PenaltyWeights(solver)) |->
                                     PenaltyWeights(solver)[j] * PenaltyWeights(solver)[j]]))]
    /\ pc' = "done"
    /\ UNCHANGED <<request, sklearn_call, rng, run, entry, dataset_params, algo_params, initial_centroids,
                   make_blobs, X, solver, history, metric_history, first_trace>>

(***************************************************************************)
(* Coefficient path (compute_coefficient_path).  The accumulator record    *)
(* held in solver carries the loop position and the lists being built;     *)
(* history is mse_path_folds.                                              *)
(***************************************************************************)
\* np.logspace(log10(lo), log10(hi), num) for lo and hi powers of two: the
\* exponents are spaced evenly, a single value is lo
logspace(lo, hi, num) ==
    LET RECURSIVE ILog2(_)
        ILog2(n) == IF n <= 1 THEN 0 ELSE 1 + ILog2(n \div 2)
        Log2(q) == ILog2(q[1]) - ILog2(q[2])
        Pow2(e) == IF e >= 0 THEN <<Pow(2, e), 1>> ELSE <<1, Pow(2, 0 - e)>>
    IN Array([k \in 1..num |->
                Pow2(Log2(lo) + IF num = 1 THEN 0
                                ELSE Quot((Log2(hi) - Log2(lo)) * (k - 1), num - 1))])

\* every fold is generated from the base seed
FoldSeed_Base(base_seed, fold_idx) == base_seed

\* the seed of the dataset of a fold
FoldSeed(base_seed, fold_idx) == base_seed + fold_idx * 1000

\* the model class's _compute_cost, _compute_gradient and penalty
ModelCost(self) ==
    IF self.class = "LassoRegression" THEN Lasso_compute_cost(self) ELSE Ridge_compute_cost(self)

ModelGradient(self) ==
    IF self.class = "LassoRegression" THEN Lasso_compute_gradient(self)
    ELSE Ridge_compute_gradient(self)

ModelRegTerm(self) ==
    IF self.class = "LassoRegression" THEN Lasso_reg_term(self) ELSE Ridge_reg_term(self)

\* fit_and_trace run to its end: the model after the last update of the loop
RECURSIVE fit_and_trace(_, _, _)
fit_and_trace(self, cost_history, num_iters) ==
    IF self.i >= num_iters THEN self
    ELSE LET updated == [Descend(self, ModelGradient(self)) EXCEPT !.i = @ + 1]
             costs == Append(cost_history, ModelCost(updated))
         IN IF EarlyStop(costs) THEN updated
            ELSE fit_and_trace(updated, costs, num_iters)

\* compute_coefficient_path: the lambda grid and the empty result lists
PathStart ==
    /\ pc = "start" /\ entry = "path"
    /\ solver' = [lambdas |-> logspace(request.path.lambda_min, request.path.lambda_max,
                                       request.path.num_lambdas),
                  fold_idx |-> 0, l |-> 0, y |-> <<>>, fold_mse_values |-> <<>>,
                  weights_path |-> <<>>, losses |-> <<>>, reg_values |-> <<>>]
    /\ history' = <<>>
    /\ pc' = IF request.path.n_folds >= 1 THEN "path_fold" ELSE "path_ret"
    /\ UNCHANGED <<request, sklearn_call, rng, run, entry, dataset_params, algo_params, initial_centroids,
                   make_blobs, X, metric_history, trace, first_trace>>

\* one pass of the fold loop up to the lambda loop: the data set of the fold
PathFold ==
    /\ pc = "path_fold"
    /\ \E entropy \in RngStates :
         LET fold_dataset_params ==
                 [dataset_params EXCEPT !.seed = FoldSeed(dataset_params.seed, solver.fold_idx)]
             g == generate_polynomial_data(fold_dataset_params, TRUE, rng, entropy)
         IN /\ X' = g.X
            /\ rng' = g.rs
            /\ solver' = [solver EXCEPT !.y = g.y, !.l = 0, !.fold_mse_values = <<>>]
    /\ pc' = "path_fit"
    /\ UNCHANGED <<request, sklearn_call, run, entry, dataset_params, algo_params, initial_centroids,
                   make_blobs, history, metric_history, trace, first_trace>>

\* one pass of the lambda loop: a new model, its fit, the MSE of the fold
\* and, in the first fold, the weights, the cost and the penalty; after the
\* last lambda the row of the fold is stored and the fold loop goes on
PathFit ==
    /\ pc = "path_fit"
    /\ IF solver.l >= Len(solver.lambdas)
       THEN /\ history' = Append(history, solver.fold_mse_values)
            /\ solver' = [solver EXCEPT !.fold_idx = @ + 1]
            /\ pc' = IF solver.fold_idx + 1 < request.path.n_folds
                     THEN "path_fold" ELSE "path_ret"
            /\ UNCHANGED rng
       ELSE \E entropy \in RngStates :
              LET lambda_reg == solver.lambdas[solver.l + 1]
                  m == IF Lower(algo_params.regularization_type) = "lasso"
                       THEN LassoRegression(X, solver.y, algo_params.learning_rate,
                                            lambda_reg, algo_params.fit_intercept,
                                            rng, entropy)
                       ELSE RidgeRegression(X, solver.y, algo_params.learning_rate,
                                            lambda_reg, algo_params.fit_intercept,
                                            rng, entropy)
                  model == fit_and_trace(m.self, <<ModelCost(m.self)>>, algo_params.num_iters)
                  first == solver.fold_idx = 0
              IN /\ rng' = m.rs
                 /\ solver' = [solver EXCEPT
                       !.l = @ + 1,
                       !.fold_mse_values = Append(@, MSE(model)),
                       !.weights_path = IF first THEN Append(@, model.weights) ELSE @,
                       !.losses = IF first THEN Append(@, ModelCost(model)) ELSE @,
                       !.reg_values = IF first THEN Append(@, ModelRegTerm(model)) ELSE @]
                 /\ pc' = "path_fit"
                 /\ UNCHANGED history
    /\ UNCHANGED <<request, sklearn_call, run, entry, dataset_params, algo_params, initial_centroids,
                   make_blobs, X, metric_history, trace, first_trace>>

\* compute_coefficient_path: the mean over the folds and the returned dictionary
PathReturn ==
    /\ pc = "path_ret"
    /\ trace' = [lambdas |-> solver.lambdas,
                 weights_path |-> solver.weights_path,
                 losses |-> solver.losses,
                 mse_values |-> Array([l \in 1..Len(solver.lambdas) |->
                                   Quot(SumSeq([f \in 1..Len(history) |-> history[f][l]]),
                                        Len(history))]),
                 mse_path_folds |-> history,
                 reg_values |-> solver.reg_values,
                 regularization_type |-> algo_params.regularization_type,
                 fit_intercept |-> algo_params.fit_intercept,
                 num_features |-> Len(X[1])]
    /\ pc' = "path_done"
    /\ UNCHANGED <<request, sklearn_call, rng, run, entry, dataset_params, algo_params, initial_centroids,
                   make_blobs, X, solver, history, metric_history, first_trace>>

(***************************************************************************)
(* Loss surface (compute_loss_surface).  Weights and losses are exact      *)
(* fractions <<numerator, denominator>> with a positive denominator.       *)
(***************************************************************************)
TRUE_INTERCEPT == 2

TRUE_COEF == 3

\* the common denominator of the values of np.linspace(lo, hi, num)
GridDen(num) == IF num > 1 THEN num - 1 ELSE 1

\* np.linspace(lo, hi, num): the numerators over GridDen(num); one value is lo
linspace(lo, hi, num) ==
    Array([k \in 1..num |-> lo * GridDen(num) + (k - 1) * (hi - lo)])

\* a <= b for two fractions
FracLeq(a, b) == a[1] * b[2] <= b[1] * a[2]

\* the ridge weights of the normal equation (X^T X + alpha I) w = X^T y for
\* the design matrix with rows (1, x): numerators over the determinant
NormalEquation(xs, y, alpha) ==
    LET m == Len(xs)
        a11 == m + alpha
        a12 == SumSeq(xs)
        a22 == SumSeq([i \in 1..m |-> xs[i] * xs[i]]) + alpha
        b1 == SumSeq(y)
        b2 == SumSeq([i \in 1..m |-> xs[i] * y[i]])
    IN [det |-> a11 * a22 - a12 * a12,
        w0 |-> b1 * a22 - a12 * b2,
        w1 |-> a11 * b2 - a12 * b1]

\* mean((y - (w0 + w1 * x)) ** 2) + alpha * (w0 ** 2 + w1 ** 2) at the
\* weights w0 / den and w1 / den
PenalizedLoss(xs, y, alpha, w0, w1, den) ==
    LET m == Len(xs)
    IN <<SumSeq([i \in 1..m |-> (y[i] * den - w0 - w1 * xs[i])
                                * (y[i] * den - w0 - w1 * xs[i])])
           + alpha * m * (w0 * w0 + w1 * w1),
         m * den * den>>

\* compute_loss_surface: reseed, the sample positions and the noisy line.
\* The sample counts of a request are those for which linspace(-2, 2, n) is
\* integral
SurfaceData ==
    /\ pc = "start" /\ entry = "surface"
    /\ \E entropy \in RngStates :
         LET sp == request.surface
             r == draw(seed(rng, sp.seed, entropy), "surface_noise")
             xn == linspace(0 - 2, 2, sp.n_samples)
             xs == Array([k \in 1..sp.n_samples |-> xn[k] \div GridDen(sp.n_samples)])
         IN /\ rng' = r
            /\ X' = xs
            /\ solver' = [y |-> Array([k \in 1..sp.n_samples |->
                                  TRUE_INTERCEPT + TRUE_COEF * xs[k]
                                  + normal_at(r, sp.noise_level, k)])]
    /\ pc' = "surface_solve"
    /\ UNCHANGED <<request, sklearn_call, run, entry, dataset_params, algo_params, initial_centroids,
                   make_blobs, history, metric_history, trace, first_trace>>

\* compute_loss_surface: np.linalg.solve raises on a singular matrix
SurfaceSolve ==
    /\ pc = "surface_solve"
    /\ LET w == NormalEquation(X, solver.y, request.surface.alpha)
       IN IF w.det = 0
          THEN pc' = "error" /\ UNCHANGED solver
          ELSE /\ solver' = [y |-> solver.y, w_opt |-> w]
               /\ pc' = "surface_grid"
    /\ UNCHANGED <<request, sklearn_call, run, entry, dataset_params, algo_params, initial_centroids,
                   make_blobs, rng, X, history, metric_history, trace, first_trace>>

\* compute_loss_surface: the grid, the loss at every grid point, the loss at
\* the solved weights and the returned dictionary
SurfaceReturn ==
    /\ pc = "surface_grid"
    /\ LET sp == request.surface
           g == sp.grid_size
           w0_range_vals == linspace(sp.w0_range[1], sp.w0_range[2], g)
           w1_range_vals == linspace(sp.w1_range[1], sp.w1_range[2], g)
           w == solver.w_opt
       IN trace' =
            [loss_surface |-> Array([i \in 1..g |-> Array([j \in 1..g |->
                                 PenalizedLoss(X, solver.y, sp.alpha, w0_range_vals[j],
                                               w1_range_vals[i], GridDen(g))])]),
             w0_grid |-> Array([i \in 1..g |-> Array([j \in 1..g |->
                                 <<w0_range_vals[j], GridDen(g)>>])]),
             w1_grid |-> Array([i \in 1..g |-> Array([j \in 1..g |->
                                 <<w1_range_vals[i], GridDen(g)>>])]),
             true_intercept |-> TRUE_INTERCEPT,
             true_coef |-> TRUE_COEF,
             optimal_intercept |-> <<w.w0, w.det>>,
             optimal_coef |-> <<w.w1, w.det>>,
             min_loss |-> PenalizedLoss(X, solver.y, sp.alpha, w.w0, w.w1, w.det),
             X |-> X,
             y |-> solver.y,
             noise_level |-> sp.noise_level,
             alpha |-> sp.alpha]
    /\ pc' = "surface_done"
    /\ UNCHANGED <<request, sklearn_call, run, entry, dataset_params, algo_params, initial_centroids,
                   make_blobs, rng, X, solver, history, metric_history, first_trace>>

(***************************************************************************)
(* PCA (app/algos/pca.py).  Data, means and covariances are fixed-point in *)
(* units of 1/Scale.  An eigenpair of the covariance of the standardized   *)
(* data is identified by its rank in the descending order of eigenvalues.  *)
(* An optional list is <<>> when it is None and <<l>> when it is l.        *)
(***************************************************************************)
\* np.array(l).shape[1:] == (dim, dim) for a list l of matrices
CovShapeOk(covs, dim) ==
    /\ Len(covs) >= 1
    /\ \A i \in 1..Len(covs) :
          Len(covs[i]) = dim /\ \A a \in 1..dim : Len(covs[i][a]) = dim

\* np.array(l).shape[1] == dim for a list l of rows
MeanShapeOk(means, dim) ==
    Len(means) >= 1 /\ \A i \in 1..Len(means) : Len(means[i]) = dim

isSymmetric(A) == \A a \in 1..Len(A) : \A b \in 1..Len(A) : A[a][b] = A[b][a]

\* generateGaussian, covs given: the two assertions, and the reads covs[i] for i < num_sets
CovsRaise(dp) ==
    /\ dp.covs # <<>>
    /\ \/ ~CovShapeOk(dp.covs[1], dp.dim)
       \/ Len(dp.covs[1]) < dp.num_sets
       \/ \E i \in 1..dp.num_sets : ~isSymmetric(dp.covs[1][i])

\* generateGaussian, means given: the assertion, and the reads means[i] for i < num_sets
MeansRaise(dp) ==
    /\ dp.means # <<>>
    /\ \/ ~MeanShapeOk(dp.means[1], dp.dim)
       \/ Len(dp.means[1]) < dp.num_sets

\* generateCovariances: one randn call per set, Sigma = A @ A.T
RECURSIVE generateCovariances(_, _, _, _)
generateCovariances(n, dim, covs, rs) ==
    IF Len(covs) >= n THEN [covs |-> covs, rs |-> rs]
    ELSE LET r == draw(rs, "pca_cov")
             A == [a \in 1..dim |-> [b \in 1..dim |-> randn_at(r, (a - 1) * dim + b)]]
             Sigma == Array([a \in 1..dim |->
                         Array([b \in 1..dim |-> Quot(Dot(A[a], A[b]), Scale)])])
         IN generateCovariances(n, dim, Append(covs, Sigma), r)

\* np.random.multivariate_normal(mean, cov, size): row j of the array one call returns
multivariate_normal_at(mean, cov, state, j) ==
    Array([c \in 1..Len(mean) |-> mean[c] + cov[c][c] * (((state + j + c) % 3) - 1)])

\* generateGaussian: reseeds the process-wide source, then one call for the
\* covariance of each set (covs None), one for the means (means None) and
\* one for the points of each set; of means and covs only the first
\* num_sets entries are read
generateGaussian(dp, rs, entropy) ==
    LET r0 == seed(rs, dp.seed, entropy)
        c == IF dp.covs = <<>> THEN generateCovariances(dp.num_sets, dp.dim, <<>>, r0)
             ELSE [covs |-> [i \in 1..Len(dp.covs[1]) |-> [a \in 1..dp.dim |->
                               [b \in 1..dp.dim |-> Scale * dp.covs[1][i][a][b]]]],
                   rs |-> r0]
        r1 == draw(c.rs, "pca_means")
        m == IF dp.means = <<>>
             THEN [means |-> [i \in 1..dp.num_sets |->
                                [d \in 1..dp.dim |-> randn_at(r1, (i - 1) * dp.dim + d)]],
                   rs |-> r1]
             ELSE [means |-> [i \in 1..Len(dp.means[1]) |->
                                [d \in 1..dp.dim |-> Scale * dp.means[1][i][d]]],
                   rs |-> c.rs]
        RECURSIVE Sets(_)
        Sets(acc) ==
            IF Len(acc.data) >= dp.num_sets THEN acc
            ELSE LET i == Len(acc.data) + 1
                     r == draw(acc.rs, "pca_samples")
                     data == Array([j \in 1..dp.num_points |->
                                 multivariate_normal_at(m.means[i], c.covs[i], r.state, j)])
                 IN Sets([data |-> Append(acc.data, data), rs |-> r])
    IN Sets([data |-> <<>>, rs |-> m.rs])

\* np.vstack(data)
vstack(data) ==
    Array([r \in 1..(Len(data) * Len(data[1])) |->
             data[((r - 1) \div Len(data[1])) + 1][((r - 1) % Len(data[1])) + 1]])

\* data.std(ddof = 0, axis = 0)
ColumnStd(flat) == [c \in 1..Len(flat[1]) |-> StdVal(Column(flat, c))]

\* standardize: every column divided by its standard deviation
standardize(flat) ==
    LET std == ColumnStd(flat)
    IN Array([r \in 1..Len(flat) |->
                Array([c \in 1..Len(flat[r]) |-> Quot(flat[r][c] * Scale, std[c])])])

\* computePCA: the dim eigenpairs of the covariance, largest eigenvalue first
computePCA(flat) ==
    [eigvals |-> [r \in 1..Len(flat[1]) |-> [rank |-> r]],
     eigvecs |-> [c \in 1..Len(flat[1]) |-> [r \in 1..Len(flat[1]) |-> [rank |-> r, coord |-> c]]]]

\* PCA.__init__: standardization, the eigenpairs, the first dim - 1 of them kept
PCA(data) ==
    LET flat_data == standardize(vstack(data))
        num_components == Len(data[1][1]) - 1
        eig == computePCA(flat_data)
        Take(a, k) == SubSeq(a, 1, IF k < Len(a) THEN k ELSE Len(a))
    IN [data |-> Array([i \in 1..Len(data) |->
                    SubSeq(flat_data, (i - 1) * Len(data[1]) + 1, i * Len(data[1]))]),
        num_sets |-> Len(data), num_points |-> Len(data[1]), dim |-> Len(data[1][1]),
        num_components |-> num_components,
        eigvals |-> Take(eig.eigvals, num_components),
        eigvecs |-> Array([c \in 1..Len(eig.eigvecs) |-> Take(eig.eigvecs[c], num_components)]),
        center |-> Array([c \in 1..Len(flat_data[1]) |-> MeanVal(Column(flat_data, c))]),
        width |-> [of |-> eig.eigvals[1]], height |-> [of |-> eig.eigvals[2]]]

\* PCA.transform: flat @ self.eigvecs, reshaped to the sets
transform(self, data) ==
    Array([i \in 1..self.num_sets |->
       Array([j \in 1..self.num_points |->
          [r \in 1..self.num_components |-> [row |-> data[i][j], onto |-> self.eigvecs[1][r].rank]]])])

\* run_pca_trace: data generation
PCAGenerate ==
    /\ pc = "start" /\ entry = "pca"
    /\ IF CovsRaise(dataset_params) \/ MeansRaise(dataset_params)
       THEN pc' = "error" /\ UNCHANGED <<rng, X>>
       ELSE \E entropy \in RngStates :
              LET g == generateGaussian(dataset_params, rng, entropy)
              IN X' = g.data /\ rng' = g.rs /\ pc' = "pca_new"
    /\ UNCHANGED <<request, sklearn_call, run, entry, dataset_params, algo_params, initial_centroids,
                   make_blobs, solver, history, metric_history, trace, first_trace>>

\* run_pca_trace: pca = PCA(data); a constant column has no finite standardization
PCAConstruct ==
    /\ pc = "pca_new"
    /\ IF \E c \in 1..Len(X[1][1]) : ColumnStd(vstack(X))[c] = 0
       THEN pc' = "error" /\ UNCHANGED solver
       ELSE solver' = PCA(X) /\ pc' = "pca_ret"
    /\ UNCHANGED <<request, sklearn_call, rng, run, entry, dataset_params, algo_params, initial_centroids,
                   make_blobs, X, history, metric_history, trace, first_trace>>

\* run_pca_trace: the envelope
PCAReturn ==
    /\ pc = "pca_ret"
    /\ trace' = [schema_version |-> 1,
                 algo |-> "pca_gaussian",
                 data |-> solver.data,
                 projected |-> transform(solver, solver.data),
                 meta |-> [num_sets |-> solver.num_sets,
                           num_points |-> solver.num_points,
                           dim |-> solver.dim,
                           ellipse |-> [ellipse_center |-> solver.center,
                                        ellipse_width |-> solver.width,
                                        ellipse_height |-> solver.height],
                           eigens |-> [eigvals |-> solver.eigvals,
                                       eigvecs |-> solver.eigvecs]],
                 params |-> [num_components |-> solver.num_components,
                             seed |-> dataset_params.seed],
                 params_full |-> [dataset |-> dataset_params]]
    /\ pc' = "done"
    /\ UNCHANGED <<request, sklearn_call, rng, run, entry, dataset_params, algo_params, initial_centroids,
                   make_blobs, X, solver, history, metric_history, first_trace>>

\* the parameters of run_pca_trace
run_pca_trace_parameters == <<"dataset_params">>

\* POST /pca: both parameter objects are dumped and passed to run_pca_trace;
\* any exception becomes HTTP 500
read_pca_trace ==
    /\ pc = "route" /\ entry = "pca"
    /\ LET arguments == <<request.dataset, request.algo>>
       IN IF Len(arguments) # Len(run_pca_trace_parameters)
          THEN pc' = "http_500" /\ UNCHANGED <<dataset_params, algo_params>>
          ELSE /\ dataset_params' = arguments[1]
               /\ algo_params' = request.algo
               /\ pc' = "start"
    /\ UNCHANGED <<request, sklearn_call, rng, run, entry, initial_centroids, make_blobs, X, solver,
                   history, metric_history, trace, first_trace>>

(***************************************************************************)
(* The same request is served a second time; in between, other requests    *)
(* may have left the process-wide source in any state.                     *)
(***************************************************************************)
FreshSource(state) == [state |-> state, by |-> NoSeed, log |-> <<>>]

Repeat ==
    /\ pc = "done" /\ run = 1
    /\ run' = 2
    /\ first_trace' = trace
    /\ \E prior \in RngStates : rng' = FreshSource(prior)
    /\ pc' = IF request.via = "adapter" THEN "route" ELSE "start"
    /\ X' = <<>> /\ solver' = <<>> /\ history' = <<>> /\ metric_history' = <<>>
    /\ trace' = <<>> /\ sklearn_call' = <<>>
    /\ UNCHANGED <<request, entry, dataset_params, algo_params, initial_centroids, make_blobs>>

(***************************************************************************)
(* Requests                                                                *)
(***************************************************************************)
GridPts == <<<<0, 0>>, <<Unit, 0>>, <<3 * Unit, Unit>>>>

\* data sets sklearn may return: NPoints grid points, in grid order
Datasets ==
    {[i \in 1..NPoints |-> GridPts[f[i]]] :
        f \in {g \in [1..NPoints -> 1..Len(GridPts)] :
                 \A i \in 1..(NPoints - 1) : g[i] <= g[i + 1]}}

Far == <<0 - 4 * Unit, 0 - 4 * Unit>>

InitialCentroidChoices ==
    {<<Far, <<0, 0>>>>, <<<<0, 0>>>>, <<<<0, 0>>, <<3 * Unit, 0>>>>,
     <<Far, Far, <<Unit, 0>>>>, <<<<Unit, Unit>>, <<0, 0>>, <<2 * Unit, Unit>>>>}

DatasetSeeds == {1, 2}

KMDatasetParams ==
    [data_type : {"blobs", "random"}, n_samples : {NPoints}, random_state : DatasetSeeds,
     n_features : {2, 3}, bounds : {<<0, 2 * Unit>>}]

KMAlgoParams ==
    [n_clusters : 1..MaxK, max_iters : {0, 1, MaxIters}, tolerance : {1, Unit},
     random_state : {Absent, None, 3}, init_method : {"kmeans++", "random"}]

\* a direct call of an engine entry point with the two parameter objects
Direct(dp, ap) == [via |-> "direct", dataset |-> dp, algo |-> ap]

\* a request body posted to an endpoint: the parameter objects after validation
Posted(dp, ap) == [via |-> "adapter", dataset |-> dp, algo |-> ap]

InitKMeans ==
    /\ entry = "kmeans"
    /\ dataset_params \in {d \in KMDatasetParams :
                              d.data_type = "blobs" => d.random_state = 1 /\ d.n_features = 2}
    /\ make_blobs \in IF dataset_params.data_type = "blobs" THEN Datasets ELSE {<<>>}
    /\ \/ /\ initial_centroids = <<>>
          /\ algo_params \in {a \in KMAlgoParams :
                                dataset_params.n_features = 3
                                    => a.random_state = 3 /\ a.max_iters >= 1}
       \/ /\ initial_centroids \in InitialCentroidChoices
          /\ dataset_params.n_features = 2
          /\ algo_params \in {a \in KMAlgoParams :
                                a.random_state = Absent /\ a.init_method = "kmeans++"}
    /\ request = Direct(dataset_params, algo_params)

\* noise and factor values of the requests, in hundredths
NoiseValues == {Absent, 0, NoiseMin, NoiseTooLow, NoiseMax, NoiseMax + 1, 100}

FactorValues == {Absent, 0, FactorMin - 1, FactorMin, 50, FactorMax, FactorMax + 1, 150}

KMShapeParams ==
    [data_type : {"moons", "circles"}, n_samples : {NPoints}, random_state : {1},
     n_features : {2}, noise : NoiseValues, factor : FactorValues]

\* run_kmeans_trace called for a moons or circles data set
InitKMeansShapes ==
    /\ entry = "kmeans"
    /\ dataset_params \in KMShapeParams
    /\ make_blobs = [i \in 1..NPoints |-> GridPts[((i - 1) % Len(GridPts)) + 1]]
    /\ initial_centroids = <<>>
    /\ algo_params = [n_clusters |-> 2, max_iters |-> MaxIters, tolerance |-> 1,
                      random_state |-> Absent, init_method |-> "random"]
    /\ request = Direct(dataset_params, algo_params)

\* bodies posted to /kmeans: every field of the request model is present
KMPostedAlgoParams ==
    [n_clusters : {2}, max_iters : {1}, tolerance : {1}, random_state : {None, 3},
     init_method : {"kmeans++"},
     initial_centroids : {<<>>, <<<<0, 0>>, <<3 * Unit, 0>>>>}]

InitKMeansPosted ==
    /\ entry = "kmeans"
    /\ dataset_params \in {d \in KMDatasetParams :
                              d.data_type = "random" /\ d.n_features = 2}
    /\ algo_params \in KMPostedAlgoParams
    /\ request = Posted(dataset_params, algo_params)
    /\ make_blobs = <<>>
    /\ initial_centroids = <<>>

InitCommon ==
    /\ rng = FreshSource(0)
    /\ pc = IF request.via = "adapter" THEN "route" ELSE "start"
    /\ run = 1
    /\ X = <<>> /\ solver = <<>> /\ history = <<>> /\ metric_history = <<>>
    /\ trace = <<>> /\ first_trace = <<>> /\ sklearn_call = <<>>

MaxEMIters == 2

EMDatasetParams == [K : 1..2, seed : DatasetSeeds, n : 2..NPoints]

EMAlgoParams == [C : 1..2, num_iters : 0..MaxEMIters]

InitEM ==
    /\ entry = "em"
    /\ dataset_params \in EMDatasetParams
    /\ algo_params \in EMAlgoParams
    /\ request = Direct(dataset_params, algo_params)
    /\ make_blobs = <<>>
    /\ initial_centroids = <<>>

MaxRegIters == 6

LinDatasetParams ==
    [n : {NPoints}, seed : DatasetSeeds, true_slope : {2}, true_intercept : {0 - 1},
     noise_std : {0, 1}, x_min : {0 - 2}, x_max : {2}, num_features : {1, 2},
     true_weights : {<<>>, Some(<<1>>), Some(<<1, 2>>), Some(<<0, 1, 2>>), Some(<<0, 1, 2, 3>>)}]

LinAlgoParams ==
    [learning_rate : {<<1, 8>>, <<1, 2>>}, num_iters : {0, 1, MaxRegIters},
     fit_intercept : BOOLEAN]

InitLinReg ==
    /\ entry = "linreg"
    /\ dataset_params \in {d \in LinDatasetParams :
                              d.num_features = 1 => d.true_weights = <<>>}
    /\ algo_params \in LinAlgoParams
    /\ request = Direct(dataset_params, algo_params)
    /\ make_blobs = <<>>
    /\ initial_centroids = <<>>

RegDatasetParams ==
    [n : {NPoints}, seed : DatasetSeeds, true_coefficients : {<<0, 1>>, <<1, 0 - 1, 1>>},
     noise_std : {0, 1}, x_min : {0 - 2}, x_max : {2}]

RegAlgoParams ==
    [regularization_type : {"ridge", "lasso", "Lasso", "elastic"},
     learning_rate : {<<1, 8>>, <<1, 2>>}, lambda_reg : {<<0, 1>>, <<1, 4>>},
     num_iters : {0, 1, MaxRegIters}, fit_intercept : BOOLEAN]

InitRegularization ==
    /\ entry = "regularization"
    /\ dataset_params \in RegDatasetParams
    /\ algo_params \in RegAlgoParams
    /\ request = Direct(dataset_params, algo_params)
    /\ make_blobs = <<>>
    /\ initial_centroids = <<>>

MaxLambdas == 3

MaxFolds == 2

PathParams ==
    [lambda_min : {<<1, 4>>}, lambda_max : {<<4, 1>>},
     num_lambdas : 1..MaxLambdas, n_folds : 1..MaxFolds]

\* compute_coefficient_path called with the two parameter objects and the grid
InitPath ==
    /\ entry = "path"
    /\ dataset_params \in {d \in RegDatasetParams : d.true_coefficients = <<0, 1>>}
    /\ algo_params \in {a \in RegAlgoParams :
                          /\ a.regularization_type \in {"ridge", "lasso"}
                          /\ a.learning_rate = <<1, 8>>
                          /\ a.lambda_reg = <<1, 4>>
                          /\ a.num_iters >= 1}
    /\ \E pp \in PathParams : request = Direct(dataset_params, algo_params) @@ [path |-> pp]
    /\ make_blobs = <<>>
    /\ initial_centroids = <<>>

PCADatasetParams ==
    [num_sets : {1, 2}, num_points : {2, NPoints}, dim : {2, 3}, seed : DatasetSeeds,
     means : {<<>>, Some(<<<<6, 10>>>>), Some(<<<<6, 10>>, <<0, 0>>>>), Some(<<<<6>>>>)},
     covs : {<<>>, Some(<<<<<<5, 4>>, <<4, 12>>>>>>),
             Some(<<<<<<5, 4>>, <<4, 12>>>>, <<<<1, 0>>, <<0, 1>>>>>>),
             Some(<<<<<<5>>>>>>), Some(<<<<<<5, 4>>, <<3, 12>>>>>>)}]

PCAAlgoParams == [num_components : {1, 2}]

\* run_pca_trace called with a dataset parameter object, or a body posted to /pca
InitPCA ==
    /\ entry = "pca"
    /\ dataset_params \in PCADatasetParams
    /\ \/ algo_params = <<>> /\ request = Direct(dataset_params, algo_params)
       \/ /\ dataset_params.means # <<>> /\ dataset_params.covs # <<>>
          /\ algo_params \in PCAAlgoParams
          /\ request = Posted(dataset_params, algo_params)
    /\ make_blobs = <<>>
    /\ initial_centroids = <<>>

MaxGrid == 3

SurfaceParams ==
    [noise_level : {0, 1}, alpha : {0, 1, 2}, n_samples : {1, 2, 3}, seed : DatasetSeeds,
     w0_range : {<<0 - 2, 6>>, <<0, 2>>}, w1_range : {<<0 - 1, 7>>, <<1, 3>>}, grid_size : 1..MaxGrid]

\* compute_loss_surface called with the loss-surface parameters of a request
InitSurface ==
    /\ entry = "surface"
    /\ dataset_params = <<>>
    /\ algo_params = <<>>
    /\ \E sp \in SurfaceParams : request = Direct(<<>>, <<>>) @@ [surface |-> sp]
    /\ make_blobs = <<>>
    /\ initial_centroids = <<>>

Init ==
    /\ \/ InitKMeans \/ InitKMeansShapes \/ InitKMeansPosted \/ InitEM \/ InitLinReg \/ InitRegularization
       \/ InitPCA \/ InitPath \/ InitSurface
    /\ InitCommon

NextKMeans == get_kmeans_trace \/ KMGenerate \/ KMFitInit \/ KMFitIter \/ KMReturn

NextEM == EMGenerate \/ EMConstruct \/ EMFitInit \/ EMIter \/ EMFinish \/ EMReturn

NextLinReg == LinGenerate \/ LinFitInit \/ LinFitIter \/ LinFitFinish \/ LinReturn

NextRegularization ==
    \/ RegGenerate \/ RegReturn
    \/ RidgeFitInit \/ RidgeFitIter \/ RidgeFitFinish
    \/ LassoFitInit \/ LassoFitIter \/ LassoFitFinish

NextPCA == read_pca_trace \/ PCAGenerate \/ PCAConstruct \/ PCAReturn

NextPath == PathStart \/ PathFold \/ PathFit \/ PathReturn

NextSurface == SurfaceData \/ SurfaceSolve \/ SurfaceReturn

Next ==
    \/ NextKMeans \/ NextEM \/ NextLinReg \/ NextRegularization \/ NextPCA
    \/ NextPath \/ NextSurface \/ Repeat

Spec == Init /\ [][Next]_vars

(***************************************************************************)
(* Two EM requests served at the same time.  The endpoints are plain       *)
(* functions, so the server runs each request on a worker thread; the      *)
(* threads share the process-wide random source and may be switched        *)
(* between any two calls into it.  Here pc, dataset_params, algo_params,   *)
(* X, solver and trace hold one value per thread.                          *)
(***************************************************************************)
Threads == {1, 2}

\* GMM3d: np.random.seed(seed)
ConcSeed(t) ==
    /\ pc[t] = "start"
    /\ \E entropy \in RngStates : rng' = seed(rng, dataset_params[t].seed, entropy)
    /\ pc' = [pc EXCEPT ![t] = "gmm_mean"]
    /\ UNCHANGED <<request, sklearn_call, run, entry, dataset_params, algo_params, initial_centroids, make_blobs,
                   X, solver, history, metric_history, trace, first_trace>>

\* GMM3d: mu_i = np.random.uniform(...)
ConcMean(t) ==
    /\ pc[t] = "gmm_mean"
    /\ LET r1 == draw(rng, "gmm_mean")
       IN /\ rng' = r1
          /\ solver' = [solver EXCEPT ![t].mu_i = gmm_mean(r1)]
    /\ pc' = [pc EXCEPT ![t] = "gmm_cov"]
    /\ UNCHANGED <<request, sklearn_call, run, entry, dataset_params, algo_params, initial_centroids, make_blobs,
                   X, history, metric_history, trace, first_trace>>

\* GMM3d: cov_i = np.diag(np.random.uniform(...))
ConcCov(t) ==
    /\ pc[t] = "gmm_cov"
    /\ LET r2 == draw(rng, "gmm_cov")
       IN /\ rng' = r2
          /\ solver' = [solver EXCEPT ![t].cov_i = gmm_cov(r2)]
    /\ pc' = [pc EXCEPT ![t] = "gmm_samples"]
    /\ UNCHANGED <<request, sklearn_call, run, entry, dataset_params, algo_params, initial_centroids, make_blobs,
                   X, history, metric_history, trace, first_trace>>

\* GMM3d: np.random.multivariate_normal(mu_i, cov_i, size = n_cluster_size)
ConcSamples(t) ==
    /\ pc[t] = "gmm_samples"
    /\ LET r3 == draw(rng, "gmm_samples")
           n_cluster_size == dataset_params[t].n \div dataset_params[t].K
       IN /\ rng' = r3
          /\ X' = [X EXCEPT ![t] = @ \o gmm_samples(r3, solver[t].mu_i, solver[t].cov_i,
                                                    n_cluster_size)]
    /\ solver' = [solver EXCEPT ![t].i = @ + 1]
    /\ pc' = [pc EXCEPT ![t] = IF solver[t].i >= dataset_params[t].K
                               THEN "em_new" ELSE "gmm_mean"]
    /\ UNCHANGED <<request, sklearn_call, run, entry, dataset_params, algo_params, initial_centroids, make_blobs,
                   history, metric_history, trace, first_trace>>

\* what the request returns depends on the random source through the data
\* rows and the initial means only
RandomPart(pts, mu) == [data_points |-> pts, mu |-> mu]

\* EM.__init__ (the last call into the random source) and the rest of the request
ConcConstruct(t) ==
    /\ pc[t] = "em_new"
    /\ IF ChoiceRaises(Len(X[t]), algo_params[t].C)
       THEN /\ pc' = [pc EXCEPT ![t] = "error"]
            /\ UNCHANGED <<rng, trace>>
       ELSE LET ip == initialized_params(X[t], algo_params[t].C, rng)
            IN /\ rng' = ip.rs
               /\ trace' = [trace EXCEPT ![t] = RandomPart(X[t], ip.mu)]
               /\ pc' = [pc EXCEPT ![t] = "done"]
    /\ UNCHANGED <<request, sklearn_call, run, entry, dataset_params, algo_params, initial_centroids, make_blobs,
                   X, solver, history, metric_history, first_trace>>

\* the same request served with no other request in the process
ServedAlone(dp, ap) ==
    LET g == GMM3d(dp.K, dp.seed, dp.n, FreshSource(0), 0)
    IN RandomPart(g.X, initialized_params(g.X, ap.C, g.rs).mu)

InitConc ==
    /\ rng = FreshSource(0)
    /\ pc = [t \in Threads |-> "start"]
    /\ run = 1
    /\ entry = "em"
    /\ dataset_params \in {d \in [Threads -> EMDatasetParams] :
                             /\ d[1].seed # d[2].seed
                             /\ \A t \in Threads : d[t].n = NPoints}
    /\ algo_params \in {a \in [Threads -> EMAlgoParams] :
                          \A t \in Threads : a[t].num_iters = 1 /\ a[t].C = 1}
    /\ X = [t \in Threads |-> <<>>]
    /\ solver = [t \in Threads |-> [i |-> 1, mu_i |-> <<>>, cov_i |-> 0]]
    /\ trace = [t \in Threads |-> <<>>]
    /\ history = <<>> /\ metric_history = <<>> /\ first_trace = <<>>
    /\ make_blobs = <<>> /\ initial_centroids = <<>> /\ sklearn_call = <<>>
    /\ request = Posted(dataset_params, algo_params)

NextConc ==
    \E t \in Threads :
        ConcSeed(t) \/ ConcMean(t) \/ ConcCov(t) \/ ConcSamples(t) \/ ConcConstruct(t)

SpecConc == InitConc /\ [][NextConc]_vars

(***************************************************************************)
(* Properties of the traces                                                *)
(***************************************************************************)
\* the seed the caller supplied for the run
CallerSeed ==
    IF entry = "kmeans" THEN Get(algo_params.random_state, dataset_params.random_state)
    ELSE IF entry = "surface" THEN request.surface.seed
    ELSE dataset_params.seed

\* an envelope with the clock reading of the K-Means summary blanked
ButRuntime(tr) == IF entry = "kmeans" THEN [tr EXCEPT !.summary.runtime_ms = 0] ELSE tr

\* C1: determinism.  The same request (same parameter objects, an integer
\* seed) served twice, the second time from any state of the process-wide
\* source, returns the same envelope.  The formula is the claim with the
\* clock-derived summary.runtime_ms left aside: the envelopes have to agree
\* on every other field.
C1_Determinism ==
    (run = 2 /\ pc = "done" /\ CallerSeed # None)
        => ButRuntime(trace) = ButRuntime(first_trace)

\* C2: seed isolation.  Whatever the interleaving of the calls into the
\* process-wide source, a request served next to another one returns what it
\* returns when it is served alone.
C2_Isolation ==
    \A t \in Threads :
        pc[t] = "done" => trace[t] = ServedAlone(dataset_params[t], algo_params[t])

\* the seeds the caller supplied for the run: K-Means takes one for the
\* data set and one for the solver
CallerSeeds ==
    IF entry = "kmeans" THEN {dataset_params.random_state, CallerSeed}
    ELSE {CallerSeed}

\* C3: reseeding discipline.  In a run given integer seeds, every draw is
\* made after the process-wide source was reseeded in that run, and the
\* last reseed before the draw used a seed the caller supplied.
C3_Reseeded ==
    CallerSeed # None => \A j \in 1..Len(rng.log) : rng.log[j].by \in CallerSeeds

\* first record, one record per executed iteration, terminal record
Lifecycle(steps, first, each, last, executed) ==
    /\ Len(steps) = executed + 2
    /\ steps[1].type = first
    /\ \A j \in 2..(Len(steps) - 1) : steps[j].type = each
    /\ steps[Len(steps)].type = last

\* C4: step-record lifecycle.  A returned trace holds the initial record,
\* one record per executed iteration and (EM, regression) the terminal
\* record; K-Means holds the initial record and one record per iteration,
\* the last of them being its terminal one.  A run given a well-formed
\* request that has produced its initial record does not fail before the
\* terminal record.
C4_Lifecycle ==
    /\ (pc = "done" /\ entry \notin {"kmeans", "pca"})
          => Lifecycle(trace.steps, "init", "update", "converged", solver.i)
    /\ (pc = "done" /\ entry = "kmeans")
          => /\ Len(trace.steps) = solver.i + 1
             /\ trace.steps[1].type = "initialization"
    /\ (pc = "error" /\ initial_centroids = <<>>) => history = <<>>

Vocabulary == {"init", "initialization", "update", "converged"}

\* C5 as stated: every step record's type is one of "init",
\* "initialization", "update", "converged".
C5_Vocabulary ==
    (pc = "done" /\ entry # "pca") => \A j \in 1..Len(trace.steps) : trace.steps[j].type \in Vocabulary

\* C5, amended: every step record's type is one of "init", "initialization",
\* "iteration", "update", "converged"; K-Means writes "initialization" on
\* its first record and "iteration" on every later one, the other
\* algorithms write "init", "update" and "converged".
C5_VocabularyWithIteration ==
    (pc = "done" /\ entry # "pca") =>
        \A j \in 1..Len(trace.steps) :
            IF entry = "kmeans"
            THEN trace.steps[j].type = IF j = 1 THEN "initialization" ELSE "iteration"
            ELSE trace.steps[j].type \in {"init", "update", "converged"}

\* a returned K-Means trace with iteration records, the last one converged
C5_Witness ==
    /\ pc = "done" /\ entry = "kmeans"
    /\ Len(trace.steps) >= 3
    /\ trace.steps[2].type = "iteration"
    /\ trace.steps[Len(trace.steps)].payload.converged

\* C6: EM iteration count.  Once EM.fit_and_trace has been called with
\* num_iters = N it ends having made N expectation/maximization pairs and
\* holding N + 2 step records (init at t = 0, updates at t = 1..N, converged
\* at t = N + 1) and N log-likelihoods.
C6_ExactCount ==
    (entry = "em" /\ pc \in {"done", "error"} /\ solver # <<>>)
        => /\ Len(history) = algo_params.num_iters + 2
           /\ \A j \in 1..Len(history) : history[j].t = j - 1
           /\ Len(metric_history) = algo_params.num_iters
           /\ solver.theta = algo_params.num_iters

\* C7: K-Means trace loop.  The first record is an initialization record,
\* not converged, with movement +infinity (null once serialised); at most
\* max_iters iteration records follow; no record but the last is converged;
\* fewer than max_iters iteration records means the last one is converged.
C7_TraceLoop ==
    (entry = "kmeans" /\ pc = "done") =>
        LET steps == trace.steps
        IN /\ steps[1].type = "initialization"
           /\ ~steps[1].payload.converged
           /\ history[1].movement = INF
           /\ steps[1].payload.movement = None
           /\ Len(steps) - 1 <= algo_params.max_iters
           /\ \A j \in 1..(Len(steps) - 1) : ~steps[j].payload.converged
           /\ Len(steps) - 1 < algo_params.max_iters
                 => steps[Len(steps)].payload.converged

\* a K-Means run that stopped on a converged step before max_iters passes
C7_Witness ==
    /\ entry = "kmeans" /\ pc = "done"
    /\ Len(trace.steps) >= 3
    /\ Len(trace.steps) - 1 < algo_params.max_iters
    /\ trace.steps[Len(trace.steps)].payload.converged

\* C8: K-Means eventual convergence.  With max_iters = MaxIters (enough for
\* every data set and initialisation of the model) and a positive
\* tolerance, the run ends on a step whose movement is below the tolerance
\* and the trace reports converged = true.
C8_Converges ==
    (entry = "kmeans" /\ pc = "done" /\ algo_params.max_iters = MaxIters
        /\ algo_params.tolerance > 0)
        => /\ history[Len(history)].converged
           /\ BelowTolerance(solver, history[Len(history)].movement)
           /\ trace.summary.converged

\* a K-Means run with max_iters = MaxIters that relocated an empty cluster
\* on the way and ended converged
C8_Witness ==
    /\ entry = "kmeans" /\ pc = "done" /\ algo_params.max_iters = MaxIters
    /\ Len(history) >= 4
    /\ \E j \in 2..Len(history) : \E k \in 1..Len(history[j].cluster_sizes) :
           history[j].cluster_sizes[k] = 0
    /\ history[Len(history)].converged

\* C9: K-Means cluster count.  Every step record of a run holds n_clusters
\* centroids, however the centroids were initialised.
C9_ClusterCount ==
    entry = "kmeans" =>
        \A j \in 1..Len(history) :
            Len(history[j].new_centroids) = algo_params.n_clusters

\* C10: regression stop rule.  Gradient descent makes update i for
\* i = 1, 2, ... and stops at the first i whose cost differs from the cost
\* before it by less than the threshold, with the converged record at
\* t = i + 1; if no i <= num_iters does, it makes all num_iters updates and
\* the converged record is at t = num_iters + 1.  Either way the converged
\* record is the only one and the last.
C10_StopRule ==
    (entry \in {"linreg", "regularization"} /\ pc = "done") =>
        LET steps == trace.steps
            costs == trace.cost_history
            updates == Len(costs) - 1
            Close(i) == Abs(costs[i] - costs[i + 1]) < CostTol
        IN /\ updates <= algo_params.num_iters
           /\ \A i \in 1..(updates - 1) : ~Close(i)
           /\ updates < algo_params.num_iters => Close(updates)
           /\ Len(steps) = updates + 2
           /\ steps[1].type = "init" /\ steps[1].t = 0
           /\ \A j \in 2..(updates + 1) :
                 /\ steps[j].type = "update" /\ steps[j].t = j - 1
                 /\ steps[j].payload.cost = costs[j]
           /\ steps[Len(steps)].type = "converged"
           /\ steps[Len(steps)].t = IF updates >= 1 /\ Close(updates)
                                    THEN updates + 1
                                    ELSE algo_params.num_iters + 1
           /\ steps[Len(steps)].payload.cost = costs[Len(costs)]

\* a regression run that stopped early, after at least two updates
C10_Witness ==
    /\ entry \in {"linreg", "regularization"} /\ pc = "done"
    /\ Len(trace.cost_history) >= 3
    /\ Len(trace.cost_history) - 1 < algo_params.num_iters
    /\ trace.steps[Len(trace.steps)].type = "converged"

\* C11: regression early stopping never fires before t = 1.  In a regression
\* run with num_iters >= 1 every converged record of the step list stands
\* right after an update record: the update of the pass whose cost the stop
\* test read, one t below the converged record and with the cost the
\* converged record reports.  The second record is always the update t = 1.
C11_StopAfterUpdate ==
    (entry \in {"linreg", "regularization"} /\ algo_params.num_iters >= 1) =>
        /\ Len(history) >= 2 => history[2].type = "update" /\ history[2].t = 1
        /\ \A c \in 1..Len(history) :
              history[c].type = "converged" =>
                 /\ c >= 3
                 /\ history[c - 1].type = "update"
                 /\ history[c - 1].t = history[c].t - 1
                 /\ history[c - 1].payload.cost = history[c].payload.cost
                 /\ Len(metric_history) >= 2

\* the stop test has just passed inside the loop: the converged record is
\* on the list before the loop is left, right after the update of that pass
C11_Witness ==
    /\ pc \in {"lin_end", "ridge_end", "lasso_end"}
    /\ algo_params.num_iters >= 1
    /\ history[Len(history)].type = "converged"
    /\ history[Len(history) - 1].type = "update"
    /\ solver.i < algo_params.num_iters

\* C12: invalid configuration aborts.  A 2-feature linear-regression request
\* whose true_weights has a length other than 2 or 3, and a PCA request
\* whose covs or means list has matrices or rows of the wrong size or a
\* number of entries other than num_sets, never gets past data generation:
\* the run ends in an error, no entry of the list being dropped or ignored.
C12_InvalidAborts ==
    /\ (/\ entry = "linreg" /\ dataset_params.num_features = 2
        /\ dataset_params.true_weights # <<>>
        /\ Len(dataset_params.true_weights[1]) \notin {2, 3})
          => pc \in {"start", "error"}
    /\ (/\ entry = "pca"
        /\ \/ /\ dataset_params.covs # <<>>
              /\ \/ ~CovShapeOk(dataset_params.covs[1], dataset_params.dim)
                 \/ Len(dataset_params.covs[1]) # dataset_params.num_sets
           \/ /\ dataset_params.means # <<>>
              /\ \/ ~MeanShapeOk(dataset_params.means[1], dataset_params.dim)
                 \/ Len(dataset_params.means[1]) # dataset_params.num_sets)
          => pc \in {"route", "http_500", "start", "error"}

\* C13: the PCA adapter returns the engine's trace.  A request posted to
\* /pca is answered with HTTP 500 only if the engine fails on its dataset
\* parameters; every other request is passed to the engine, and what is
\* returned for it is the engine's envelope, algo "pca_gaussian".
C13_AdapterReturnsTrace ==
    (entry = "pca" /\ request.via = "adapter") =>
        /\ pc = "http_500" => CovsRaise(request.dataset) \/ MeansRaise(request.dataset)
        /\ pc = "done" => trace.algo = "pca_gaussian"

\* C14: PCA component count.  Every PCA request whose dataset parameters
\* the engine accepts is answered with a trace that keeps dim - 1
\* eigenpairs when no component count was given and exactly num_components
\* eigenpairs when the request gives one; params.num_components is the
\* number kept.
C14_ComponentCount ==
    (/\ entry = "pca" /\ pc \in {"done", "http_500", "error"}
     /\ ~CovsRaise(request.dataset) /\ ~MeansRaise(request.dataset)) =>
        /\ pc = "done"
        /\ LET kept == IF request.via = "direct" THEN request.dataset.dim - 1
                       ELSE request.algo.num_components
           IN /\ Len(trace.meta.eigens.eigvals) = kept
              /\ \A c \in 1..Len(trace.meta.eigens.eigvecs) :
                    Len(trace.meta.eigens.eigvecs[c]) = kept
              /\ trace.params.num_components = kept

\* the parameter objects a returned envelope has to echo
EchoesRequest(tr) ==
    /\ tr.params_full.dataset = request.dataset
    /\ entry # "pca" => tr.params_full.algo = request.algo

\* C15: params_full echoes the raw inputs.  In every returned envelope
\* params_full.dataset and params_full.algo are the parameter objects as
\* the caller supplied them, no field removed, added or overwritten (the
\* PCA envelope carries the dataset object only).
C15_ParamsFullEcho == pc = "done" => EchoesRequest(trace)

\* C16: algorithm identifier.  The algo field of a returned envelope is one
\* of the six identifiers, and for a regularization run it names the model
\* that was fitted: "regularization_lasso" for a LassoRegression object,
\* "regularization_ridge" for a RidgeRegression object.
C16_AlgoIdentifier ==
    pc = "done" =>
        IF entry = "regularization"
        THEN trace.algo = <<"regularization",
                            IF solver.class = "LassoRegression" THEN "lasso" ELSE "ridge">>
        ELSE trace.algo \in {"em_gmm_3d", "kmeans", "linear_regression", "pca_gaussian"}

\* C19: K-Means seed fallback.  When the algo object of the request has no
\* random_state (absent or null), the solver is constructed with, and
\* params.random_state reports, the dataset's random_state, on the direct
\* call and through the endpoint alike.
C19_SeedFallback ==
    (entry = "kmeans" /\ pc = "done" /\ request.algo.random_state \in {Absent, None}) =>
        /\ solver.random_state = request.dataset.random_state
        /\ trace.params.random_state = request.dataset.random_state

\* the sum of the priors of a step record
PriorSum(record) == SumSeq(record.payload.pi)

\* C17: EM mixture weights.  In the init record and in the first update
\* record the priors are non-negative and sum to 1, up to the rounding of
\* the C quotients, also when the normalizer of a row was clipped at the
\* floor in the expectation step that produced them.
C17_PriorsSumToOne ==
    entry = "em" =>
        \A j \in 1..Len(history) :
            history[j].t <= 1 =>
                /\ \A c \in 1..Len(history[j].payload.pi) : history[j].payload.pi[c] >= 0
                /\ Abs(PriorSum(history[j]) - PiScale) <= 2 * Len(history[j].payload.pi)

\* C20: EM dataset size.  GMM3d returns exactly the n rows that were
\* requested, and meta.n of the envelope is n.
C20_DatasetSize ==
    entry = "em" =>
        /\ pc \notin {"start"} => Len(X) = dataset_params.n
        /\ pc = "done" => trace.meta.n = dataset_params.n

\* an empty cluster was relocated in the step that wrote record j
Relocated(j) == \E k \in 1..Len(history[j].cluster_sizes) : history[j].cluster_sizes[k] = 0

C21_EmptyClusterPolicy ==
    entry = "kmeans" =>
        \A j \in 2..Len(history) :
            \A k \in 1..Len(history[j].cluster_sizes) :
                history[j].cluster_sizes[k] = 0 =>
                    LET placed == SubSeq(history[j].new_centroids, 1, k - 1)
                        c == history[j].new_centroids[k]
                    IN IF k = 1 THEN c \in Range(X)
                       ELSE \E i \in 1..Len(X) :
                               /\ X[i] = c
                               /\ \A o \in 1..Len(X) :
                                     NearestSq(X, placed)[i] >= NearestSq(X, placed)[o]

\* the largest squared displacement between two serialised centroid lists
MaxDisplacementSq(old, new) ==
    MaxOf({SqDist(new[k].position, old[k].position) : k \in 1..Len(new)})

\* C22: K-Means convergence predicate.  In a returned trace the first record
\* is not converged, and every later record reports converged exactly when
\* its movement (the largest displacement between its old and its new
\* centroids, when the record holds as many old centroids as new ones)
\* is below the effective tolerance: the configured tolerance
\* for 2-feature data, half of it for 3-feature data (compared on squares,
\* 4 * movement^2 < (2 * effective tolerance)^2).  A record with zero
\* movement is converged whenever the tolerance is positive.
C22_ConvergedIffBelowTolerance ==
    (entry = "kmeans" /\ pc = "done") =>
        LET twice_effective == IF request.dataset.n_features = 3
                               THEN request.algo.tolerance
                               ELSE 2 * request.algo.tolerance
        IN /\ ~trace.steps[1].payload.converged
           /\ \A j \in 2..Len(trace.steps) :
                 LET p == trace.steps[j].payload
                 IN /\ Len(p.old_centroids) = Len(p.centroids)
                          => p.movement = MaxDisplacementSq(p.old_centroids, p.centroids)
                    /\ p.converged <=> 4 * p.movement < twice_effective * twice_effective
                    /\ (p.movement = 0 /\ request.algo.tolerance > 0) => p.converged

\* a returned 3-feature run with a step that moved by less than the
\* configured tolerance but not by less than half of it, and is not converged
C22_Witness ==
    /\ entry = "kmeans" /\ pc = "done" /\ request.dataset.n_features = 3
    /\ \E j \in 2..Len(trace.steps) :
          LET p == trace.steps[j].payload
          IN /\ ~p.converged
             /\ p.movement < request.algo.tolerance * request.algo.tolerance
             /\ 4 * p.movement >= request.algo.tolerance * request.algo.tolerance

\* the constant (bias) columns of the design matrix: every entry is 1
ConstantColumns(self) ==
    {j \in 1..Len(self.weights) :
        \A i \in 1..Len(self.X_with_bias) : self.X_with_bias[i][j] = Scale}

\* lambda * sum of w^2 (ridge) or of |w| (lasso) over the weights w[j], j in S
PenaltyOver(self, w, S) ==
    IF self.class = "LassoRegression"
    THEN Quot(self.lambda_reg[1] * Scale
                * SumSeq([j \in 1..Len(w) |-> IF j \in S THEN Abs(w[j]) ELSE 0]),
              self.lambda_reg[2])
    ELSE Quot(self.lambda_reg[1]
                * SumSeq([j \in 1..Len(w) |-> IF j \in S THEN w[j] * w[j] ELSE 0]),
              self.lambda_reg[2])

\* C23: bias excluded from penalties.  In a Ridge or Lasso run with an
\* intercept, every record that reports weights reports as regularization
\* term, and as cost minus mse, the penalty taken over the weights of the
\* non-constant columns only; and in every update record the gradient entry
\* of a constant column, and the lasso gradient entry of a weight that was
\* 0, is the plain MSE gradient entry.
C23_BiasNotPenalized ==
    (entry = "regularization" /\ solver # <<>> /\ algo_params.fit_intercept) =>
        LET features == (1..Len(solver.weights)) \ ConstantColumns(solver)
        IN \A c \in 1..Len(history) :
              history[c].type \in {"init", "update"} =>
                 LET p == history[c].payload
                 IN /\ p.regularization = PenaltyOver(solver, p.weights, features)
                    /\ p.cost - p.mse = PenaltyOver(solver, p.weights, features)
                    /\ history[c].type = "update" =>
                          LET before == [solver EXCEPT
                                            !.weights = history[c - 1].payload.weights]
                          IN \A j \in 1..Len(p.gradient) :
                                (\/ j \in ConstantColumns(solver)
                                 \/ /\ solver.class = "LassoRegression"
                                    /\ before.weights[j] = 0)
                                   => p.gradient[j] = MSEGradient(before)[j]

\* the model of a coefficient-path request fitted from scratch on the data
\* set of seed seed_ with penalty strength lambda_reg
FreshFit(seed_, lambda_reg) ==
    LET g == generate_polynomial_data([request.dataset EXCEPT !.seed = seed_], TRUE,
                                      FreshSource(0), 0)
        m == IF request.algo.regularization_type = "lasso"
             THEN LassoRegression(g.X, g.y, request.algo.learning_rate, lambda_reg,
                                  request.algo.fit_intercept, g.rs, 0)
             ELSE RidgeRegression(g.X, g.y, request.algo.learning_rate, lambda_reg,
                                  request.algo.fit_intercept, g.rs, 0)
    IN fit_and_trace(m.self, <<ModelCost(m.self)>>, request.algo.num_iters)

C25_Standardized ==
    (entry = "pca" /\ pc = "done") =>
        LET flat_data == vstack(trace.data)
        IN \A c \in 1..Len(flat_data[1]) :
              /\ Abs(MeanVal(Column(flat_data, c))) <= 1
              /\ Abs(StdVal(Column(flat_data, c)) - Scale) <= 1

\* the noise and factor of a moons or circles request (0.1 and 0.5 if left out)
GivenNoise == Get(request.dataset.noise, 10)

GivenFactor == Get(request.dataset.factor, 50)

ShapeRun == entry = "kmeans" /\ request.dataset.data_type \in {"moons", "circles"}

\* C26 as stated: whatever noise and factor a moons or circles request
\* gives, generation does not fail; the noise handed to sklearn lies in
\* [0.01, 0.3] and the factor in [0.2, 0.9]; a value inside its range is
\* handed on unchanged and a value outside is replaced by the nearest end
\* of the range.
C26_ClampedToNearestBound ==
    ShapeRun =>
        /\ pc # "error"
        /\ sklearn_call # <<>> =>
              /\ sklearn_call.noise =
                    IF GivenNoise > 30 THEN 30 ELSE IF GivenNoise < 1 THEN 1 ELSE GivenNoise
              /\ request.dataset.data_type = "circles" =>
                    sklearn_call.factor =
                       IF GivenFactor < 20 THEN 20
                       ELSE IF GivenFactor > 90 THEN 90 ELSE GivenFactor

\* C26, amended: generation does not fail; the noise handed to sklearn lies
\* in [0.01, 0.3] and the factor in [0.2, 0.9]; a value inside its range is
\* handed on unchanged; a value outside is replaced by a fixed value inside
\* the range: noise above 0.3 by 0.1, noise below 0.01 by 0.05, a factor
\* below 0.2 by 0.3 and a factor above 0.9 by 0.7.
C26_ReplacedByDefault ==
    ShapeRun =>
        /\ pc # "error"
        /\ sklearn_call # <<>> =>
              /\ sklearn_call.noise >= 1 /\ sklearn_call.noise <= 30
              /\ sklearn_call.noise =
                    IF GivenNoise > 30 THEN 10 ELSE IF GivenNoise < 1 THEN 5 ELSE GivenNoise
              /\ request.dataset.data_type = "circles" =>
                    /\ sklearn_call.factor >= 20 /\ sklearn_call.factor <= 90
                    /\ sklearn_call.factor =
                          IF GivenFactor < 20 THEN 30
                          ELSE IF GivenFactor > 90 THEN 70 ELSE GivenFactor

\* a returned circles run whose noise was above and whose factor was below
\* the range
C26_Witness ==
    /\ ShapeRun /\ pc = "done"
    /\ request.dataset.data_type = "circles"
    /\ GivenNoise > 30 /\ GivenFactor < 20
    /\ sklearn_call.noise = 10 /\ sklearn_call.factor = 30

\* C27: EM log-likelihood provenance.  The log-likelihood of an update
\* record is that of the parameters the record reports, and the
\* log-likelihood of the converged record is that of the final parameters.
C27_LoglikeOfReportedParameters ==
    entry = "em" =>
        \A j \in 1..Len(history) :
            /\ history[j].type = "update"
                  => history[j].payload.loglike.of = history[j].payload.theta
            /\ history[j].type = "converged"
                  => history[j].payload.loglike.of = solver.theta

\* C28: histories agree with steps.  In a returned K-Means trace the
\* inertia history has one entry per step, with the step's inertia, and
\* the summary repeats the number of iterations and the last step's
\* converged flag and inertia; in a returned regression trace the cost
\* history has one entry per init or update record, and its entry t is the
\* cost of the record with index t.
StateRecords(steps) == SelectSeq(steps, LAMBDA r : r.type \in {"init", "update"})

C28_HistoriesAgreeWithSteps ==
    pc = "done" =>
        /\ entry = "kmeans" =>
             LET steps == trace.steps
                 last == steps[Len(steps)].payload
             IN /\ Len(trace.inertia_history) = Len(steps)
                /\ \A j \in 1..Len(steps) :
                      trace.inertia_history[j] = steps[j].payload.inertia
                /\ trace.summary.iterations = Len(steps) - 1
                /\ trace.summary.converged = last.converged
                /\ trace.summary.final_inertia = last.inertia
        /\ entry \in {"linreg", "regularization"} =>
             /\ Len(trace.cost_history) = Len(StateRecords(trace.steps))
             /\ \A j \in 1..Len(trace.steps) :
                   trace.steps[j].type \in {"init", "update"} =>
                       /\ trace.steps[j].t + 1 \in 1..Len(trace.cost_history)
                       /\ trace.cost_history[trace.steps[j].t + 1]
                             = trace.steps[j].payload.cost

\* a ridge or lasso run that stopped early after at least two updates
C28_Witness ==
    /\ pc = "done" /\ entry = "regularization"
    /\ Len(StateRecords(trace.steps)) >= 3
    /\ Len(trace.steps) = Len(trace.cost_history) + 1
    /\ Len(trace.cost_history) - 1 < algo_params.num_iters
    /\ trace.cost_history[2] # trace.cost_history[1]

\* C29: step indices are consecutive.  In every returned step trace the
\* record at position i (counted from 0) has t = i, whether the run stopped
\* early or made the full number of iterations.
C29_ConsecutiveIndices ==
    (pc = "done" /\ entry \in {"kmeans", "em", "linreg", "regularization"}) =>
        \A j \in 1..Len(trace.steps) : trace.steps[j].t = j - 1

\* a linear-regression run that stopped before its last iteration, so that
\* its converged record is indexed by the stopping pass
C29_Witness ==
    /\ pc = "done" /\ entry = "linreg"
    /\ Len(trace.steps) >= 4
    /\ trace.steps[Len(trace.steps)].type = "converged"
    /\ trace.steps[Len(trace.steps)].t < algo_params.num_iters + 1

\* C30: the loss-surface optimum is the minimum of the surface.  The loss
\* returned as min_loss, the penalized loss at the solved weights, is at
\* most every value of loss_surface.
C30_MinLossBelowSurface ==
    pc = "surface_done" =>
        \A i \in 1..Len(trace.loss_surface) :
            \A j \in 1..Len(trace.loss_surface[i]) :
                FracLeq(trace.min_loss, trace.loss_surface[i][j])

====
